---- MODULE Spec2Model ----
(***************************************************************************)
(* Model of two parts of IDEA4RC-NLP-ClinicalWebAnnotation:                *)
(*                                                                         *)
(*  1. the pipeline job runtime of src/pipeline/api/app.py: one job, its   *)
(*     background task, the child process of a subprocess stage, and the   *)
(*     /status, /cancel and /kill endpoints (sync endpoints, so they run   *)
(*     in worker threads and interleave with the task statement by         *)
(*     statement);                                                         *)
(*  2. the session store of src/backend/routes/sessions.py: one session    *)
(*     and the handlers that rewrite its file.                             *)
(***************************************************************************)
EXTENDS Integers, Sequences, FiniteSets, TLC

\* ---------------------------------------------------------------- bounds
\* POST /cancel requests handled for the job
MaxCancel == 1
\* POST /kill requests handled for the job
MaxKill == 1
\* annotations in the body of one PUT /api/sessions/{id}
MaxPutAnn == 1
\* saves of the session file (each stamps a later updated_at)
MaxSaves == 3
\* length of the note_ids list of one /api/annotate request
MaxNoteIds == 2
\* length of the prompt_types list of one /api/annotate request
MaxPromptTypes == 2
\* annotations of the session an export reads
MaxExportAnn == 3
\* modification times a prompts.json file can carry
MaxMtime == 2
\* accepted create requests on the prompt files
MaxCreates == 3
\* the largest n asked of find_top_candidates
MaxTopN == 3
\* segments of a note's text between the delimiters inside it
MaxSegments == 3

VARIABLES
    shape,      \* which run_*_task the job is
    row,        \* the job's row of pipeline_status (NoRow when there is none)
    cancelEv,   \* CANCEL_EVENTS[task_id]: "absent", "clear" or "set"
    procEntry,  \* task_id \in PROCESS_PIDS
    child,      \* the stage's child process
    q,          \* the child's one-shot result queue
    tphase,     \* where the background task is
    ip,         \* index of the task's current statement in Prog(shape)
    tsub,       \* position inside _run_in_subprocess
    result,     \* _run_in_subprocess's local `result`
    pending,    \* exception in flight inside _run_in_subprocess / the task
    kst,        \* per thread: position inside _kill_task_process/_clear_process
    kret,       \* per thread: _kill_task_process's return value
    kinfo,      \* per thread: which stage's child the local `info` names
    gen,        \* number of child processes started so far
    cpc,        \* cancel_task's position
    ccur,       \* cancel_task's local `current`
    creq,       \* cancel_task's local `requested`
    nCancel,    \* /cancel requests sent so far
    kpc,        \* force_kill_task's position
    nKill,      \* /kill requests sent so far
    lastResp,   \* the HTTP response the latest step sent (NoResp: none)
    restarted,  \* the API process was restarted after the job was registered
    restartStep,\* the row's step when the process restarted
    hist,       \* history of the run, read by the properties only
    sess,       \* the session a save writes to the session file (one session)
    sresp,      \* the last HTTP response of a session route
    disk,       \* the session file's bytes: "whole", or "truncated" while a
                \* save has opened the file for writing and not finished
    bt,         \* the /api/annotate request in progress or last answered:
                \* its body, the handler's locals and position, its response
    ex,         \* the session an export reads (annotations in dictionary
                \* order, unified ICD-O-3 codes) and the rows of the last export
    pcache,     \* the annotate routes' prompt cache (_PROMPTS,
                \* _PROMPTS_DIR_MTIMES, _prompts_loaded) and the files it reads
    pfiles,     \* the prompt directory tree the prompt routes read and write
    topc,      \* the last query of find_top_candidates and its result
    upl,        \* the last notes CSV uploaded and its parsed rows
    evalr       \* the last (gold, prediction) pair evaluated and its result

jobVars == <<shape, row, cancelEv, procEntry, child, q, tphase, ip, tsub, result,
             pending, kst, kret, kinfo, gen, cpc, ccur, creq, nCancel, kpc, nKill, lastResp,
             restarted, restartStep, hist>>

sessVars == <<sess, sresp, disk>>

batchVars == <<bt>>

libVars == <<ex, pcache, pfiles, topc, upl, evalr>>

\* what the actions of one part leave alone
ExportFrame == UNCHANGED <<jobVars, sessVars, batchVars, pcache, pfiles, topc, upl, evalr>>
CacheFrame == UNCHANGED <<jobVars, sessVars, batchVars, ex, pfiles, topc, upl, evalr>>
FilesFrame == UNCHANGED <<jobVars, sessVars, batchVars, ex, pcache, topc, upl, evalr>>
CandsFrame == UNCHANGED <<jobVars, sessVars, batchVars, ex, pcache, pfiles, upl, evalr>>
UploadFrame == UNCHANGED <<jobVars, sessVars, batchVars, ex, pcache, pfiles, topc, evalr>>
EvalFrame == UNCHANGED <<jobVars, sessVars, batchVars, ex, pcache, pfiles, topc, upl>>

vars == <<jobVars, sessVars, batchVars, libVars>>

Shapes == {"qc", "link", "pipeline", "disc", "cont"}
Threads == {"task", "cancel", "kill"}
Terminal == {"Completed", "Failed", "Cancelled"}
AliveStates == {"running", "put"}

NoRow == [step |-> "absent", progress |-> 0, result |-> "none"]
Row(s, p, r) == [step |-> s, progress |-> p, result |-> r]
NoResp == [ep |-> "none", code |-> 0, ok |-> FALSE]

\* ------------------------------------------------------------ the programs
Upd(s, p) == [op |-> "upd", step |-> s, progress |-> p]
Chk == [op |-> "chk", step |-> "-", progress |-> 0]
Work == [op |-> "work", step |-> "-", progress |-> 0]
Sub == [op |-> "sub", step |-> "-", progress |-> 0]
Use == [op |-> "use", step |-> "-", progress |-> 0]
Fin == [op |-> "fin", step |-> "Completed", progress |-> 100]

ProgQC ==
    << Upd("Initializing", 0), Chk,
       Upd("Loading data", 10), Work, Chk,
       Upd("Running quality check", 60), Sub, Chk,
       Upd("Saving results", 90), Work, Fin >>

ProgLink ==
    << Upd("Initializing", 0), Chk,
       Upd("Loading data", 10), Work, Chk,
       Upd("Linking rows", 60), Sub, Use, Chk,
       Work, Fin >>

ProgPipeline ==
    << Upd("Initializing", 0), Chk,
       Upd("Loading data", 10), Work, Chk,
       Upd("Processing free texts", 30), Sub, Use, Work, Chk,
       Upd("Linking rows", 60), Sub, Use, Work, Chk,
       Upd("Performing data quality checks", 90), Sub, Work, Fin >>

ProgDisc ==
    << Upd("Initializing", 5),
       Upd("Loading data", 10), Work,
       Upd("Computing discoverability", 70), Work, Fin >>

ProgCont ==
    << Upd("Fetching validated NLP data", 10), Work, Chk,
       Upd("Loading structured data", 20), Work, Chk,
       Upd("Merging data", 30), Work, Chk,
       Upd("Linking rows", 50), Sub, Use, Work, Chk,
       Upd("Running quality checks", 80), Sub, Work, Chk, Fin >>

Prog(s) ==
    CASE s = "qc" -> ProgQC
      [] s = "link" -> ProgLink
      [] s = "pipeline" -> ProgPipeline
      [] s = "disc" -> ProgDisc
      [] OTHER -> ProgCont

Instr == Prog(shape)[ip]

\* ------------------------------------------------- the status table
\* update_status(task_id, step, progress, result): the upsert replaces step,
\* progress and result; `result or None` stores "" as NULL.
update_status(s, p, r) == Row(s, p, IF r = "" THEN "none" ELSE r)

\* ------------------------------------------------- the child process
\* _subproc_child: the target returns and ("ok", res) is queued ...
ChildOk ==
    /\ child = "running"
    /\ child' = "put"
    /\ q' = "ok"
    /\ UNCHANGED <<shape, row, cancelEv, procEntry, tphase, ip, tsub, result,
                   pending, kst, kret, kinfo, gen, cpc, ccur, creq, nCancel, kpc,
                   nKill, restarted, restartStep, hist, sessVars, batchVars, libVars>>
    /\ lastResp' = NoResp

\* ... or the target raises and ("err", traceback) is queued ...
ChildErr ==
    /\ child = "running"
    /\ child' = "put"
    /\ q' = "err"
    /\ UNCHANGED <<shape, row, cancelEv, procEntry, tphase, ip, tsub, result,
                   pending, kst, kret, kinfo, gen, cpc, ccur, creq, nCancel, kpc,
                   nKill, restarted, restartStep, hist, sessVars, batchVars, libVars>>
    /\ lastResp' = NoResp

\* ... and the child process exits (not yet waited for).
ChildExit ==
    /\ child = "put"
    /\ child' = "zombie"
    /\ UNCHANGED <<shape, row, cancelEv, procEntry, q, tphase, ip, tsub, result,
                   pending, kst, kret, kinfo, gen, cpc, ccur, creq, nCancel, kpc,
                   nKill, restarted, restartStep, hist, sessVars, batchVars, libVars>>
    /\ lastResp' = NoResp

\* What a signal does to the child. SIGKILL ends a live child; SIGTERM ends it
\* or is still being handled when the sender looks again.
AfterSigkill(c) == IF c \in AliveStates THEN "zombie" ELSE c
AfterSigterm(c) == IF c \in AliveStates THEN {c, "zombie"} ELSE {c}
\* proc.join / proc.is_alive on a process that has exited reaps it.
Reap(c) == IF c = "zombie" THEN "reaped" ELSE c

\* ------------------------------- _kill_task_process and _clear_process
\* force=True only in force_kill_task; cancel_task and _run_in_subprocess
\* pass force=False.
Force(t) == t = "kill"

\* The part of the state no step of the two functions touches.
KillFrame ==
    /\ lastResp' = NoResp
    /\ UNCHANGED <<shape, row, cancelEv, q, tphase, ip, tsub, result,
                         pending, gen, cpc, ccur, creq, nCancel, kpc, nKill,
                         restarted, restartStep, sessVars, batchVars, libVars>>

\* info = PROCESS_PIDS.get(task_id); if not info: return False
KillGet(t) ==
    /\ kst[t] = "k1"
    /\ IF procEntry
         THEN /\ kst' = [kst EXCEPT ![t] = "k2"]
              /\ kinfo' = [kinfo EXCEPT ![t] = gen]
              /\ UNCHANGED kret
         ELSE /\ kst' = [kst EXCEPT ![t] = "ret"]
              /\ kret' = [kret EXCEPT ![t] = FALSE]
              /\ UNCHANGED kinfo
    /\ UNCHANGED <<procEntry, child, hist>>
    /\ KillFrame

\* The child `info` names: the current one, or an earlier stage's, which
\* has exited and been waited for.
InfoChild(t) == IF kinfo[t] = gen THEN child ELSE "reaped"

\* psutil.Process(pid): NoSuchProcess once the pid has been waited for; then
\* _clear_process and return True.
KillLookup(t) ==
    /\ kst[t] = "k2"
    /\ IF InfoChild(t) = "reaped"
         THEN /\ kst' = [kst EXCEPT ![t] = "c1"]
              /\ kret' = [kret EXCEPT ![t] = TRUE]
         ELSE /\ kst' = [kst EXCEPT ![t] = "k3"]
              /\ UNCHANGED kret
    /\ UNCHANGED <<procEntry, child, kinfo, hist>>
    /\ KillFrame

\* for p in processes_to_kill: p.send_signal(sig)
KillSignal(t) ==
    /\ kst[t] = "k3"
    /\ IF Force(t)
         THEN /\ child' = (IF kinfo[t] = gen THEN AfterSigkill(child) ELSE child)
              /\ kst' = [kst EXCEPT ![t] = "k5"]
              /\ hist' = IF t = "task" THEN [hist EXCEPT !.pKill = TRUE] ELSE hist
         ELSE /\ child' \in (IF kinfo[t] = gen THEN AfterSigterm(child) ELSE {child})
              /\ kst' = [kst EXCEPT ![t] = "k4"]
              /\ hist' = IF t = "task" THEN [hist EXCEPT !.pTerm = TRUE] ELSE hist
    /\ UNCHANGED <<procEntry, kret, kinfo>>
    /\ KillFrame

\* if not force: wait up to `timeout` for the child, then p.kill() the tree
\* if the parent is still running.
KillEscalate(t) ==
    /\ kst[t] = "k4"
    /\ child' = (IF kinfo[t] = gen THEN AfterSigkill(child) ELSE child)
    /\ hist' = IF t = "task" /\ kinfo[t] = gen /\ child \in AliveStates
                 THEN [hist EXCEPT !.pKill = TRUE] ELSE hist
    /\ kst' = [kst EXCEPT ![t] = "k5"]
    /\ UNCHANGED <<procEntry, kret, kinfo>>
    /\ KillFrame

\* proc.join(timeout=1.0); if proc.is_alive(): proc.kill(); proc.join(0.5)
JoinOrKill(c) == Reap(AfterSigkill(c))

KillJoin(t) ==
    /\ kst[t] = "k5"
    /\ child' = (IF kinfo[t] = gen THEN JoinOrKill(child) ELSE child)
    /\ kst' = [kst EXCEPT ![t] = "c1"]
    /\ kret' = [kret EXCEPT ![t] = TRUE]
    /\ UNCHANGED <<procEntry, kinfo, hist>>
    /\ KillFrame

\* _clear_process: info = PROCESS_PIDS.pop(task_id, None); the entry popped
\* is the current stage's, whichever child the caller was after.
ClearPop(t) ==
    /\ kst[t] = "c1"
    /\ IF procEntry
         THEN /\ procEntry' = FALSE
              /\ kinfo' = [kinfo EXCEPT ![t] = gen]
              /\ kst' = [kst EXCEPT ![t] = "c2"]
         ELSE /\ kst' = [kst EXCEPT ![t] = "ret"]
              /\ kinfo' = [kinfo EXCEPT ![t] = 0]
              /\ UNCHANGED procEntry
    /\ UNCHANGED <<child, kret, hist>>
    /\ KillFrame

\* if proc.is_alive(): terminate, join(1.0); if still alive: kill, join(0.5);
\* then the final join(0.1).
TerminateKillJoin_NoKill(c) == Reap(c)
TerminateKillJoin(c) == Reap(AfterSigkill(c))

ClearReap(t) ==
    /\ kst[t] = "c2"
    /\ child' = (IF kinfo[t] = gen THEN TerminateKillJoin(child) ELSE child)
    /\ kst' = [kst EXCEPT ![t] = "ret"]
    /\ kinfo' = [kinfo EXCEPT ![t] = 0]
    /\ UNCHANGED <<procEntry, kret, hist>>
    /\ KillFrame

KillStep(t) ==
    \/ KillGet(t)
    \/ KillLookup(t)
    \/ KillSignal(t)
    \/ KillEscalate(t)
    \/ KillJoin(t)
    \/ ClearPop(t)
    \/ ClearReap(t)

\* ------------------------------------------------- the background task
\* What the str(exc) stored as `result` says about the failure.
\*   "exc:work"     an in-process step raised (file parse, store, HTTP fetch)
\*   "exc:child"    RuntimeError(traceback) relayed from the child
\*   "exc:noresult" a step used the None a killed stage returns

\* The endpoints register the job: create_cancel_event, then the Queued row
\* (discoverability_call: the row first), then schedule the task.
StartJob(s) ==
    /\ tphase = "unborn"
    /\ ~restarted
    /\ shape' = s
    /\ row' = update_status("Queued", 0, "")
    /\ cancelEv' = "clear"
    /\ tphase' = "queued"
    /\ UNCHANGED <<procEntry, child, q, ip, tsub, result, pending, kst, kret,
                   kinfo, gen, cpc, ccur, creq, nCancel, kpc, nKill,
                   restarted, restartStep, hist, sessVars, batchVars, libVars>>
    /\ lastResp' = NoResp

TaskFrame ==
    /\ lastResp' = NoResp
    /\ UNCHANGED <<shape, procEntry, child, q, tsub, result, kst, kret,
                         kinfo, gen, cpc, ccur, creq, nCancel, kpc, nKill,
                         restarted, restartStep, hist, sessVars, batchVars, libVars>>

\* The event loop starts the background task.
TaskBegin ==
    /\ tphase = "queued"
    /\ tphase' = "run"
    /\ ip' = 1
    /\ UNCHANGED <<row, cancelEv, pending>>
    /\ TaskFrame

\* update_status(task_id, step, progress) at a waypoint
TaskUpdate ==
    /\ tphase = "run" /\ Instr.op = "upd"
    /\ row' = update_status(Instr.step, Instr.progress, "")
    /\ ip' = ip + 1
    /\ UNCHANGED <<tphase, cancelEv, pending>>
    /\ TaskFrame

\* is_cancelled(task_id): the event is registered and set
is_cancelled == cancelEv = "set"

\* check_cancelled_or_raise(task_id)
TaskCheck ==
    /\ tphase = "run" /\ Instr.op = "chk"
    /\ IF is_cancelled
         THEN /\ tphase' = "exc_cancel"
              /\ ip' = 1
         ELSE /\ ip' = ip + 1
              /\ UNCHANGED tphase
    /\ UNCHANGED <<row, cancelEv, pending>>
    /\ TaskFrame

\* An in-process step (_read_uploaded_file, store_step_output, requests.get,
\* run_fill_metadata) returns ...
TaskWorkOk ==
    /\ tphase = "run" /\ Instr.op = "work"
    /\ ip' = ip + 1
    /\ UNCHANGED <<tphase, row, cancelEv, pending>>
    /\ TaskFrame

\* ... or raises.
TaskWorkFail ==
    /\ tphase = "run" /\ Instr.op = "work"
    /\ tphase' = "exc_error"
    /\ pending' = "exc:work"
    /\ ip' = 1
    /\ UNCHANGED <<row, cancelEv>>
    /\ TaskFrame

\* A step that dereferences the stage's result: linked_df.shape,
\* store_step_output(.., structured_data) -> sanitize_for_sqlite(None).copy()
TaskUse ==
    /\ tphase = "run" /\ Instr.op = "use"
    /\ IF result = "none"
         THEN /\ tphase' = "exc_error"
              /\ pending' = "exc:noresult"
              /\ ip' = 1
         ELSE /\ ip' = ip + 1
              /\ UNCHANGED <<tphase, pending>>
    /\ UNCHANGED <<row, cancelEv>>
    /\ TaskFrame

\* update_status(task_id, "Completed", 100, <message>)
TaskComplete ==
    /\ tphase = "run" /\ Instr.op = "fin"
    /\ row' = update_status("Completed", 100, "done")
    /\ tphase' = "finally"
    /\ ip' = 1
    /\ UNCHANGED <<cancelEv, pending>>
    /\ TaskFrame

\* except CancelledError: update_status(task_id, "Cancelled", 100, str(exc))
TaskCancelled ==
    /\ tphase = "exc_cancel"
    /\ row' = update_status("Cancelled", 100, "cancelled")
    /\ tphase' = "finally"
    /\ pending' = "none"
    /\ UNCHANGED <<ip, cancelEv>>
    /\ TaskFrame

\* except Exception: update_status(task_id, "Failed", 100, str(exc)); raise
TaskFailed ==
    /\ tphase = "exc_error"
    /\ row' = update_status("Failed", 100, pending)
    /\ tphase' = "finally"
    /\ pending' = "none"
    /\ UNCHANGED <<ip, cancelEv>>
    /\ TaskFrame

\* a task that ends without popping its cancel event
TaskFinally_NoPop ==
    /\ tphase = "finally"
    /\ cancelEv' = cancelEv
    /\ tphase' = "ended"
    /\ result' = "none"
    /\ hist' = [hist EXCEPT !.pTerm = FALSE, !.pKill = FALSE]
    /\ lastResp' = NoResp
    /\ UNCHANGED <<ip, row, pending, shape, procEntry, child, q, tsub, kst, kret,
                   kinfo, gen, cpc, ccur, creq, nCancel, kpc, nKill, restarted,
                   restartStep, sessVars, batchVars, libVars>>

\* finally: CANCEL_EVENTS.pop(task_id, None)
TaskFinally ==
    /\ tphase = "finally"
    /\ cancelEv' = "absent"
    /\ tphase' = "ended"
    /\ result' = "none"
    /\ hist' = [hist EXCEPT !.pTerm = FALSE, !.pKill = FALSE]
    /\ lastResp' = NoResp
    /\ UNCHANGED <<ip, row, pending, shape, procEntry, child, q, tsub, kst, kret,
                   kinfo, gen, cpc, ccur, creq, nCancel, kpc, nKill, restarted,
                   restartStep, sessVars, batchVars, libVars>>

\* --------------------------------------------------- _run_in_subprocess
SubFrame ==
    /\ lastResp' = NoResp
    /\ UNCHANGED <<shape, row, cancelEv, cpc, ccur, creq, nCancel, kpc,
                        nKill, restarted, restartStep, sessVars, batchVars, libVars>>

\* p.start(); _register_process(task_id, p.pid, p); result = None
SubStart ==
    /\ tphase = "run" /\ Instr.op = "sub"
    /\ tphase' = "sub"
    /\ tsub' = "alive"
    /\ child' = "running"
    /\ q' = "empty"
    /\ gen' = gen + 1
    /\ procEntry' = TRUE
    /\ result' = "none"
    /\ hist' = [hist EXCEPT !.pTerm = FALSE, !.pKill = FALSE]
    /\ UNCHANGED <<ip, pending, kst, kret, kinfo>>
    /\ SubFrame

\* while p.is_alive():
SubAlive ==
    /\ tphase = "sub" /\ tsub = "alive"
    /\ IF child \in AliveStates
         THEN /\ tsub' = "chk"
              /\ UNCHANGED child
         ELSE /\ tsub' = "after"
              /\ child' = Reap(child)
    /\ UNCHANGED <<tphase, ip, q, gen, procEntry, result, pending, kst, kret,
                   kinfo, hist>>
    /\ SubFrame

\* if is_cancelled(task_id): _kill_task_process(task_id, force=False); raise
SubCheck ==
    /\ tphase = "sub" /\ tsub = "chk"
    /\ IF is_cancelled
         THEN /\ tsub' = "kill"
              /\ kst' = [kst EXCEPT !["task"] = "k1"]
         ELSE /\ tsub' = "get"
              /\ UNCHANGED kst
    /\ UNCHANGED <<tphase, ip, child, q, gen, procEntry, result, pending, kret,
                   kinfo, hist>>
    /\ SubFrame

\* raise CancelledError(...) -> finally: _clear_process(task_id)
SubRaiseCancelled ==
    /\ tphase = "sub" /\ tsub = "kill" /\ kst["task"] = "ret"
    /\ pending' = "cancel"
    /\ tsub' = "clear"
    /\ kst' = [kst EXCEPT !["task"] = "c1"]
    /\ kret' = [kret EXCEPT !["task"] = FALSE]
    /\ UNCHANGED <<tphase, ip, child, q, gen, procEntry, result, kinfo, hist>>
    /\ SubFrame

\* status, payload = q.get(timeout=0.2)
SubGet ==
    /\ tphase = "sub" /\ tsub = "get"
    /\ CASE q = "ok" ->
              /\ result' = "ok"
              /\ q' = "empty"
              /\ tsub' = "join"
              /\ UNCHANGED <<pending, kst>>
         [] q = "err" ->
              /\ pending' = "exc:child"
              /\ q' = "empty"
              /\ tsub' = "clear"
              /\ kst' = [kst EXCEPT !["task"] = "c1"]
              /\ UNCHANGED result
         [] OTHER ->
              /\ tsub' = "alive"
              /\ UNCHANGED <<result, q, pending, kst>>
    /\ UNCHANGED <<tphase, ip, child, gen, procEntry, kret, kinfo, hist>>
    /\ SubFrame

\* if result is None and not q.empty(): status, payload = q.get_nowait()
SubAfter ==
    /\ tphase = "sub" /\ tsub = "after"
    /\ CASE q = "ok" ->
              /\ result' = "ok"
              /\ q' = "empty"
              /\ tsub' = "join"
              /\ UNCHANGED <<pending, kst>>
         [] q = "err" ->
              /\ pending' = "exc:child"
              /\ q' = "empty"
              /\ tsub' = "clear"
              /\ kst' = [kst EXCEPT !["task"] = "c1"]
              /\ UNCHANGED result
         [] OTHER ->
              /\ tsub' = "join"
              /\ UNCHANGED <<result, q, pending, kst>>
    /\ UNCHANGED <<tphase, ip, child, gen, procEntry, kret, kinfo, hist>>
    /\ SubFrame

\* p.join(timeout=1.0), then finally: _clear_process(task_id)
SubJoin ==
    /\ tphase = "sub" /\ tsub = "join"
    /\ child' = Reap(child)
    /\ tsub' = "clear"
    /\ kst' = [kst EXCEPT !["task"] = "c1"]
    /\ UNCHANGED <<tphase, ip, q, gen, procEntry, result, pending, kret, kinfo,
                   hist>>
    /\ SubFrame

\* _run_in_subprocess returns `result` or propagates the exception.
SubExit ==
    /\ tphase = "sub" /\ tsub = "clear" /\ kst["task"] = "ret"
    /\ tsub' = "-"
    /\ kst' = [kst EXCEPT !["task"] = "off"]
    /\ q' = "empty"
    /\ CASE pending = "cancel" ->
              /\ tphase' = "exc_cancel"
              /\ ip' = 1
         [] pending = "exc:child" ->
              /\ tphase' = "exc_error"
              /\ ip' = 1
         [] OTHER ->
              /\ tphase' = "run"
              /\ ip' = ip + 1
    /\ UNCHANGED <<child, gen, procEntry, result, pending, kret, kinfo, hist>>
    /\ SubFrame

\* ------------------------------------------------------- the endpoints
\* The client of the job (status_web) sends one control request, /cancel or
\* /kill, at a time: a request is read only when no other is being handled.
\* Each request runs in a worker thread and interleaves with the task and
\* the child statement by statement.
EpFrame == UNCHANGED <<shape, procEntry, child, q, tphase, ip, tsub, result,
                       pending, kinfo, gen, restarted, restartStep, sessVars, batchVars, libVars>>

\* get_status_from_db(task_id): the row, or None
get_status_from_db == IF row = NoRow THEN NoRow ELSE row

\* request_cancel(task_id): False when no event is registered, else set it
request_cancel == IF cancelEv = "absent" THEN "absent" ELSE "set"

\* GET /status/{task_id}: the row, or the default Queued payload when there
\* is none. The handler reads the table and writes nothing.
get_status ==
    IF get_status_from_db = NoRow
      THEN [code |-> 200, step |-> "Queued", progress |-> 0, result |-> "none",
            is_running |-> TRUE]
      ELSE [code |-> 200, step |-> get_status_from_db.step,
            progress |-> get_status_from_db.progress,
            result |-> get_status_from_db.result, is_running |-> FALSE]

\* POST /cancel/{task_id}: current = get_status_from_db(task_id);
\* if not current: raise HTTPException(404)
CancelRead_No404 ==
    /\ cpc = "idle" /\ kpc = "idle"
    /\ nCancel < MaxCancel
    /\ nCancel' = nCancel + 1
    /\ ccur' = get_status_from_db
    /\ cpc' = "upd"
    /\ UNCHANGED <<row, cancelEv, kst, creq, kpc, nKill, hist, kret>>
    /\ lastResp' = NoResp
    /\ EpFrame

CancelRead ==
    /\ cpc = "idle" /\ kpc = "idle"
    /\ nCancel < MaxCancel
    /\ IF get_status_from_db = NoRow
         THEN /\ lastResp' = [ep |-> "cancel", code |-> 404, ok |-> FALSE]
              /\ UNCHANGED <<cpc, ccur, nCancel>>
         ELSE /\ ccur' = get_status_from_db
              /\ cpc' = "upd"
              /\ nCancel' = nCancel + 1
              /\ lastResp' = NoResp
    /\ UNCHANGED <<row, cancelEv, kst, creq, kpc, nKill, hist, kret>>
    /\ EpFrame

\* update_status(task_id, "Cancelling", int(current.get("progress") or 0),
\*               current.get("result") or "")
CancelUpdate ==
    /\ cpc = "upd"
    /\ row' = update_status("Cancelling", ccur.progress,
                            IF ccur.result = "none" THEN "" ELSE ccur.result)
    /\ cpc' = "req"
    /\ ccur' = NoRow
    /\ UNCHANGED <<cancelEv, kst, creq, nCancel, kpc, nKill, hist, kret>>
    /\ lastResp' = NoResp
    /\ EpFrame

\* requested = request_cancel(task_id), then _kill_task_process(task_id)
CancelRequest ==
    /\ cpc = "req"
    /\ creq' = (cancelEv # "absent")
    /\ cancelEv' = request_cancel
    /\ hist' = IF cancelEv # "absent" /\ tphase = "sub" /\ child = "running"
                 THEN [hist EXCEPT !.cancelInStage = TRUE] ELSE hist
    /\ cpc' = "kill"
    /\ kst' = [kst EXCEPT !["cancel"] = "k1"]
    /\ UNCHANGED <<row, ccur, nCancel, kpc, nKill, kret>>
    /\ lastResp' = NoResp
    /\ EpFrame

\* return {"ok": bool(requested), "message": "Cancellation requested."}
CancelReturn ==
    /\ cpc = "kill" /\ kst["cancel"] = "ret"
    /\ lastResp' = [ep |-> "cancel", code |-> 200, ok |-> creq]
    /\ UNCHANGED hist
    /\ cpc' = "idle"
    /\ creq' = FALSE
    /\ kst' = [kst EXCEPT !["cancel"] = "off"]
    /\ kret' = [kret EXCEPT !["cancel"] = FALSE]
    /\ UNCHANGED <<row, cancelEv, ccur, nCancel, kpc, nKill>>
    /\ EpFrame

\* POST /kill/{task_id}: 404 without a row
KillRead ==
    /\ kpc = "idle" /\ cpc = "idle"
    /\ nKill < MaxKill
    /\ IF get_status_from_db = NoRow
         THEN /\ lastResp' = [ep |-> "kill", code |-> 404, ok |-> FALSE]
              /\ UNCHANGED <<kpc, nKill>>
         ELSE /\ kpc' = "req"
              /\ nKill' = nKill + 1
              /\ lastResp' = NoResp
    /\ UNCHANGED <<row, cancelEv, kst, cpc, ccur, creq, nCancel, hist, kret>>
    /\ EpFrame

\* request_cancel(task_id); killed = _kill_task_process(task_id, force=True)
KillRequest ==
    /\ kpc = "req"
    /\ cancelEv' = request_cancel
    /\ kpc' = "kill"
    /\ kst' = [kst EXCEPT !["kill"] = "k1"]
    /\ UNCHANGED <<row, cpc, ccur, creq, nCancel, nKill, hist, kret>>
    /\ lastResp' = NoResp
    /\ EpFrame

\* update_status(task_id, "Cancelled", 100, "Force-killed by user" if killed
\* else "Kill requested"); return
KillUpdate ==
    /\ kpc = "kill" /\ kst["kill"] = "ret"
    /\ row' = update_status("Cancelled", 100,
                            IF kret["kill"] THEN "killed" ELSE "kill-requested")
    /\ lastResp' = [ep |-> "kill", code |-> 200,
                    ok |-> kret["kill"]]
    /\ kpc' = "idle"
    /\ kst' = [kst EXCEPT !["kill"] = "off"]
    /\ kret' = [kret EXCEPT !["kill"] = FALSE]
    /\ UNCHANGED <<cancelEv, cpc, ccur, creq, nCancel, nKill, hist>>
    /\ EpFrame

\* The API process stops and starts again: the status database stays, the
\* task, the threads and the registries CANCEL_EVENTS and PROCESS_PIDS are
\* gone. The new process holds no handle on a child left behind.
Restart ==
    /\ row # NoRow
    /\ ~restarted
    /\ restarted' = TRUE
    /\ restartStep' = row.step
    /\ tphase' = "gone"
    /\ tsub' = "-"
    /\ cancelEv' = "absent"
    /\ procEntry' = FALSE
    /\ child' = "none"
    /\ q' = "empty"
    /\ result' = "none"
    /\ pending' = "none"
    /\ kst' = [t \in Threads |-> "off"]
    /\ kret' = [t \in Threads |-> FALSE]
    /\ kinfo' = [t \in Threads |-> 0]
    /\ cpc' = "idle"
    /\ kpc' = "idle"
    /\ ccur' = NoRow
    /\ creq' = FALSE
    /\ lastResp' = NoResp
    /\ UNCHANGED <<shape, row, ip, gen, nCancel, nKill, hist, sessVars, batchVars, libVars>>

\* =========================================================== sessions
\* One session file. The notes are fixed when the session is created:
\* note n1 has report_type "A", note n2 has report_type "B"; "gx" is a
\* note_id that is not in the session. "p1" and "p2" are prompt types of
\* prompts.json, "zz" is not.
NoteIds == {"n1", "n2"}
GhostNote == "gx"
AllNoteIds == NoteIds \cup {GhostNote}
ReportTypes == {"A", "B"}
PromptNames == {"p1", "p2"}
UnknownPrompt == "zz"

\* ---------------------------------------------- ICD-O-3 code information
\* Rows of the diagnosis-code CSV (read with dtype=str, keep_default_na=False:
\* an empty cell is the empty string). A row that becomes a candidate has a
\* non-empty Query; its NAME may be empty.
RowNamed == [query_code |-> "8940/0-C00.2", name |-> "Pleomorphic adenoma"]
RowUnnamed == [query_code |-> "8805/3-C71.7", name |-> ""]
\* find_top_candidates: the ranked rows, best first
CandidateLists == {<<RowNamed, RowUnnamed>>, <<RowUnnamed, RowNamed>>}
\* None
Null == "null"
\* candidate_index: int = Query(..., ge=0, le=4)
MaxCandidateIndex == 4

\* A stored annotation, reduced to its icdo3_code: `present` is whether
\* annotations[note_id][prompt_type] exists, `icdo3` whether it carries an
\* icdo3_code, the rest are ICDO3CodeInfo's candidates,
\* selected_candidate_index, code, description and user_selected.
Absent == [present |-> FALSE, icdo3 |-> FALSE, candidates |-> <<>>,
           selected_candidate_index |-> 0, code |-> Null, description |-> Null,
           user_selected |-> FALSE]
\* an annotation of a prompt that is not a histology/site prompt
Plain == [Absent EXCEPT !.present = TRUE]

\* _extract_with_llm_and_csv_match: the best row is the default selection;
\* primary_code is its Query, description is `description if description
\* else None`.
LlmCsvMatch(cands) ==
    [present |-> TRUE, icdo3 |-> TRUE, candidates |-> cands,
     selected_candidate_index |-> 0,
     code |-> cands[1].query_code,
     description |-> IF cands[1].name = "" THEN Null ELSE cands[1].name,
     user_selected |-> FALSE]
\* extract_icdo3_from_text, strategy 3 (a code found in the text, looked up
\* in the CSV): description is str(best_row.get('NAME', '')).
CodeCsvMatch(cands) ==
    [present |-> TRUE, icdo3 |-> TRUE, candidates |-> cands,
     selected_candidate_index |-> 0,
     code |-> cands[1].query_code,
     description |-> cands[1].name,
     user_selected |-> FALSE]
\* the fallbacks without candidates ('exact_no_csv', 'pattern')
NoCandidates ==
    [present |-> TRUE, icdo3 |-> TRUE, candidates |-> <<>>,
     selected_candidate_index |-> 0, code |-> "8805/3", description |-> Null,
     user_selected |-> FALSE]
\* what extract_icdo3_from_text returns for a histology/site prompt
extract_icdo3_from_text ==
    {LlmCsvMatch(c) : c \in CandidateLists}
        \cup {CodeCsvMatch(c) : c \in CandidateLists}
        \cup {NoCandidates}
\* An annotation as the annotation routes return it and the client stores it
Contents == {Plain} \cup extract_icdo3_from_text

\* note.get('report_type', '') through the note_id -> report_type lookup
\* (note_report_types.get(note_id, '')): '' for a note_id not in the session
ReportTypeOf(n) == CASE n = "n1" -> "A" [] n = "n2" -> "B" [] OTHER -> ""

\* report_type_mapping values: report_type -> list of prompt types
Mappings == UNION {[K -> SUBSET PromptNames] : K \in SUBSET ReportTypes}
EmptyMapping == [k \in {} |-> {}]
\* mapping.get(rt, [])
MappingGet(m, rt) == IF rt \in DOMAIN m THEN m[rt] ELSE {}
\* the union of all mapped prompt types
MappingUnion(m) == UNION {m[k] : k \in DOMAIN m}

AnnKeys == AllNoteIds \X PromptNames
NoAnnotations == [k \in AnnKeys |-> Absent]
Stored(a) == {k \in AnnKeys : a[k].present}
\* bodies of PUT: any note_id -> prompt_type -> annotation dictionary with
\* at most n annotations
RECURSIVE BodiesUpTo(_)
BodiesUpTo(n) ==
    IF n = 0 THEN {NoAnnotations}
    ELSE LET B == BodiesUpTo(n - 1)
         IN B \cup {[b EXCEPT ![k] = c] : b \in B, k \in AnnKeys, c \in Contents}
PutBodies == BodiesUpTo(MaxPutAnn)

NoSession == [exists |-> FALSE, prompt_types |-> {}, has_mapping |-> FALSE,
              mapping |-> EmptyMapping, annotations |-> NoAnnotations,
              updated_at |-> 0]

\* The response of a session route: which route answered, with what status.
SessResp(op, code) == [op |-> op, code |-> code]

\* _save_session: session_data['updated_at'] = datetime.now().isoformat(),
\* a later time at every save (counted in saves), ...
save_session(s) == [s EXCEPT !.updated_at = @ + 1]

\* ... then open(session_file, 'w') truncates the file in place and
\* json.dump writes the session into it: until the dump has finished the
\* file is empty or partly written. A handler runs to its end before the
\* event loop starts another one, so a handler finds the file whole.
SaveBegins ==
    /\ disk = "whole"
    /\ sess.updated_at < MaxSaves
    /\ disk' = "truncated"

\* json.dump has written the whole session and the file is closed
SaveWritten ==
    /\ disk = "truncated"
    /\ disk' = "whole"
    /\ UNCHANGED <<sess, sresp, jobVars, batchVars, libVars>>

\* GET /api/sessions/{id} served by another process of the server (the file
\* is the only state the processes share): 404 without the file; json.load
\* raises on an empty or partly written file (500).
get_session ==
    /\ sresp' = SessResp("get", IF ~sess.exists THEN 404
                                ELSE IF disk = "whole" THEN 200 ELSE 500)
    /\ UNCHANGED <<sess, disk, jobVars, batchVars, libVars>>

\* POST /api/sessions: the body's prompt_types and report_type_mapping are
\* stored as given, annotations start empty.
create_session(pts, hasMap, m) ==
    /\ ~sess.exists
    /\ SaveBegins
    /\ sess' = save_session(
                 [exists |-> TRUE, prompt_types |-> pts, has_mapping |-> hasMap,
                  mapping |-> IF hasMap THEN m ELSE EmptyMapping,
                  annotations |-> NoAnnotations, updated_at |-> 0])
    /\ sresp' = SessResp("create", 200)
    /\ UNCHANGED <<jobVars, batchVars, libVars>>

\* PUT /api/sessions/{id}: session['annotations'] = the body's annotations
update_session(body) ==
    /\ sess.exists
    /\ SaveBegins
    /\ sess' = save_session([sess EXCEPT !.annotations = body])
    /\ sresp' = SessResp("put", 200)
    /\ UNCHANGED <<jobVars, batchVars, libVars>>

\* PATCH with a report_type_mapping: what stays of the annotations
\* (pt not in set(mapping.get(rt, [])) is deleted) ...
PatchedAnnotations(a, m) ==
    [k \in AnnKeys |->
        IF a[k].present /\ k[2] \in MappingGet(m, ReportTypeOf(k[1]))
          THEN a[k] ELSE Absent]

\* ... and the session a PATCH saves: the mapping replaced, the annotations
\* pruned, prompt_types the union of the mapping's lists; a PATCH without a
\* mapping (name only) saves the session as it is.
PatchSession(s, hasMap, m) ==
    save_session(
        IF hasMap
          THEN [s EXCEPT !.has_mapping = TRUE,
                         !.mapping = m,
                         !.annotations = PatchedAnnotations(s.annotations, m),
                         !.prompt_types = MappingUnion(m)]
          ELSE s)

\* PATCH /api/sessions/{id}: name and/or report_type_mapping
update_session_metadata(hasMap, m) ==
    /\ sess.exists
    /\ SaveBegins
    /\ sess' = PatchSession(sess, hasMap, m)
    /\ sresp' = SessResp("patch", 200)
    /\ UNCHANGED <<jobVars, batchVars, libVars>>

\* POST /api/sessions/{id}/prompt_types: 400 when a new type is not in
\* prompts.json, else the new types are appended
add_prompt_types(pts) ==
    /\ sess.exists
    /\ LET new == pts \ sess.prompt_types
           invalid == new \ PromptNames
       IN IF invalid # {}
            THEN /\ disk = "whole"
                 /\ sresp' = SessResp("add", 400)
                 /\ UNCHANGED <<sess, disk>>
            ELSE /\ SaveBegins
                 /\ sess' = save_session(
                              [sess EXCEPT !.prompt_types = sess.prompt_types \cup new])
                 /\ sresp' = SessResp("add", 200)
    /\ UNCHANGED <<jobVars, batchVars, libVars>>

\* remove_prompt_types without the check that a prompt type remains
remove_prompt_types_NoGuard(pts) ==
    /\ sess.exists
    /\ SaveBegins
    /\ sess' = save_session([sess EXCEPT
            !.prompt_types = sess.prompt_types \ pts,
            !.annotations = [k \in AnnKeys |->
                IF k[2] \in pts THEN Absent ELSE sess.annotations[k]]])
    /\ sresp' = SessResp("remove", 200)
    /\ UNCHANGED <<jobVars, batchVars, libVars>>

\* DELETE /api/sessions/{id}/prompt_types: 400 when nothing would remain,
\* else the types and their annotations are removed
remove_prompt_types(pts) ==
    /\ sess.exists
    /\ LET updated == sess.prompt_types \ pts
       IN IF updated = {}
            THEN /\ disk = "whole"
                 /\ sresp' = SessResp("remove", 400)
                 /\ UNCHANGED <<sess, disk>>
            ELSE /\ SaveBegins
                 /\ sess' = save_session([sess EXCEPT
                        !.prompt_types = updated,
                        !.annotations = [k \in AnnKeys |->
                            IF k[2] \in pts THEN Absent ELSE sess.annotations[k]]])
                 /\ sresp' = SessResp("remove", 200)
    /\ UNCHANGED <<jobVars, batchVars, libVars>>

\* The selection written into icdo3_code: selected_candidate_index, code
\* (the candidate's query_code), description (its name), user_selected.
SelectedCandidate(ann, idx) ==
    [ann EXCEPT !.selected_candidate_index = idx,
                !.user_selected = TRUE,
                !.code = ann.candidates[idx + 1].query_code,
                !.description = ann.candidates[idx + 1].name]

\* POST /api/annotate/icdo3/select: 404 without the annotation, 400 without
\* icdo3_code, without candidates or with candidate_index >= len(candidates),
\* else the selection is stored in the annotation
select_icdo3_candidate(n, p, idx) ==
    /\ sess.exists
    /\ LET ann == sess.annotations[<<n, p>>]
       IN CASE ~ann.present ->
                 /\ disk = "whole"
                 /\ sresp' = SessResp("select", 404)
                 /\ UNCHANGED <<sess, disk>>
            [] ~ann.icdo3 \/ ann.candidates = <<>> \/ idx >= Len(ann.candidates) ->
                 /\ disk = "whole"
                 /\ sresp' = SessResp("select", 400)
                 /\ UNCHANGED <<sess, disk>>
            [] OTHER ->
                 /\ SaveBegins
                 /\ sess' = save_session([sess EXCEPT !.annotations[<<n, p>>] =
                                SelectedCandidate(ann, idx)])
                 /\ sresp' = SessResp("select", 200)
    /\ UNCHANGED <<jobVars, batchVars, libVars>>

SessNext ==
    \/ \E pts \in SUBSET PromptNames, m \in Mappings :
          create_session(pts, TRUE, m)
    \/ \E pts \in SUBSET PromptNames : create_session(pts, FALSE, EmptyMapping)
    \/ \E body \in PutBodies : update_session(body)
    \/ \E m \in Mappings : update_session_metadata(TRUE, m)
    \/ update_session_metadata(FALSE, EmptyMapping)
    \/ \E pts \in SUBSET (PromptNames \cup {UnknownPrompt}) : add_prompt_types(pts)
    \/ \E pts \in (SUBSET (PromptNames \cup {UnknownPrompt})) \ {{}} :
          remove_prompt_types(pts)
    \/ \E n \in AllNoteIds, p \in PromptNames, idx \in 0..MaxCandidateIndex :
          select_icdo3_candidate(n, p, idx)
    \/ SaveWritten
    \/ get_session

\* ------------------------------------------------ /api/annotate requests
\* lists of at most n elements of S
RECURSIVE SeqsUpTo(_, _)
SeqsUpTo(S, n) ==
    IF n = 0 THEN {<<>>}
    ELSE LET P == SeqsUpTo(S, n - 1)
         IN P \cup {Append(l, x) : l \in P, x \in S}

\* BatchProcessRequest.note_ids and .prompt_types
NoteIdLists == SeqsUpTo(AllNoteIds, MaxNoteIds)
PromptTypeLists == SeqsUpTo(PromptNames, MaxPromptTypes)
\* seconds one (note, prompt) pair takes
Durations == {1, 2}

\* no request in progress (pairs and raised count the pairs the handler
\* started and the pairs that raised; the properties read them)
NoRequest ==
    [phase |-> "idle", kind |-> "none", note_ids |-> <<>>, prompt_types |-> <<>>,
     up |-> FALSE, loaded |-> FALSE, has_mapping |-> FALSE, mapping |-> EmptyMapping,
     i |-> 1, begun |-> FALSE, todo |-> <<>>, anns |-> <<>>, secs |-> 0,
     results |-> <<>>, code |-> 0, endpoint_named |-> FALSE, pairs |-> 0,
     raised |-> 0]

\* a request as it arrives: its route, its body, and whether the LLM server
\* answers the availability probe
Request(kind, nids, pts, up) ==
    [NoRequest EXCEPT !.kind = kind, !.note_ids = nids, !.prompt_types = pts,
                      !.up = up]

\* the handler's locals after _load_session: report_type_mapping of the session
Loaded(r) ==
    [r EXCEPT !.loaded = sess.exists,
              !.has_mapping = sess.exists /\ sess.has_mapping,
              !.mapping = IF sess.exists THEN sess.mapping ELSE EmptyMapping]

\* every requested prompt type is processed, whatever the mapping says
prompt_types_to_process_NoFilter(hasMap, m, rt, pts) == pts

\* prompt_types_to_process: with a non-empty report_type_mapping and a
\* report_type, the requested prompt types that are in
\* report_type_mapping.get(report_type, []), in the request's order (none
\* when that list is empty or missing); otherwise the requested prompt types
prompt_types_to_process(hasMap, m, rt, pts) ==
    IF hasMap /\ DOMAIN m # {} /\ rt # ""
      THEN SelectSeq(pts, LAMBDA pt : pt \in MappingGet(m, rt))
      ELSE pts

\* AnnotationResult of a pair that ran to its end; annotation_text is kept
\* as the pieces it is formatted from
SuccessAnnotation(pt) ==
    [prompt_type |-> pt, status |-> "success", annotation_text |-> <<"text">>]

\* AnnotationResult of the except branch: annotation_text=f"ERROR: {str(e)}"
ErrorAnnotation(pt) ==
    [prompt_type |-> pt, status |-> "error", annotation_text |-> <<"ERROR: ", "e">>]

\* a batch that starts its loop without asking whether the LLM is available
batch_process_NoProbe(nids, pts, up) ==
    /\ bt.phase = "idle"
    /\ disk = "whole"
    /\ LET r == Request("batch", nids, pts, up)
       IN bt' = IF ~sess.exists
                  THEN [r EXCEPT !.phase = "done", !.code = 404]
                  ELSE [Loaded(r) EXCEPT !.phase = "loop"]
    /\ UNCHANGED <<jobVars, sessVars, libVars>>

\* POST /api/annotate/batch, up to the loop: 404 without the session file,
\* then the availability check (503, the detail names the endpoint)
batch_process(nids, pts, up) ==
    /\ bt.phase = "idle"
    /\ disk = "whole"
    /\ LET r == Request("batch", nids, pts, up)
       IN bt' = IF ~sess.exists
                  THEN [r EXCEPT !.phase = "done", !.code = 404]
                ELSE IF ~up
                  THEN [Loaded(r) EXCEPT !.phase = "done", !.code = 503,
                                         !.endpoint_named = TRUE]
                  ELSE [Loaded(r) EXCEPT !.phase = "loop"]
    /\ UNCHANGED <<jobVars, sessVars, libVars>>

\* for note_id in request.note_ids: a note_id that is not in the session is
\* skipped, for the others the prompt types to process are filtered
BatchNextNote ==
    /\ bt.phase = "loop" /\ bt.kind = "batch"
    /\ ~bt.begun
    /\ bt.i <= Len(bt.note_ids)
    /\ LET n == bt.note_ids[bt.i]
       IN bt' = IF n \notin NoteIds
                  THEN [bt EXCEPT !.i = @ + 1]
                  ELSE [bt EXCEPT !.begun = TRUE,
                                  !.anns = <<>>,
                                  !.todo = prompt_types_to_process(
                                              bt.has_mapping, bt.mapping,
                                              ReportTypeOf(n), bt.prompt_types)]
    /\ UNCHANGED <<jobVars, sessVars, libVars>>

\* a pair whose exception leaves the handler: the request fails with 500
ProcessPair_Propagate(raises, d) ==
    /\ bt.phase = "loop"
    /\ bt.begun
    /\ bt.todo # <<>>
    /\ bt' = IF raises
               THEN [bt EXCEPT !.phase = "done", !.code = 500, !.pairs = @ + 1,
                               !.raised = @ + 1]
               ELSE [bt EXCEPT !.anns = Append(@, SuccessAnnotation(Head(bt.todo))),
                               !.todo = Tail(@),
                               !.secs = IF bt.kind = "one" THEN @ + d ELSE d,
                               !.pairs = @ + 1]
    /\ UNCHANGED <<jobVars, sessVars, libVars>>

\* one (note, prompt) pair, of either route: the try body appends the
\* annotation, the except branch appends the error annotation and the loop
\* goes on. The batch keeps the last pair's duration (time.time() -
\* prompt_start), the single-note route measures from its start.
ProcessPair(raises, d) ==
    /\ bt.phase = "loop"
    /\ bt.begun
    /\ bt.todo # <<>>
    /\ bt' = [bt EXCEPT !.anns = Append(@, IF raises
                                            THEN ErrorAnnotation(Head(bt.todo))
                                            ELSE SuccessAnnotation(Head(bt.todo))),
                        !.todo = Tail(@),
                        !.secs = IF bt.kind = "one" THEN @ + d ELSE d,
                        !.pairs = @ + 1,
                        !.raised = IF raises THEN @ + 1 ELSE @]
    /\ UNCHANGED <<jobVars, sessVars, libVars>>

\* a batch that puts each note's response in front of the earlier ones
BatchNoteDone_Prepend ==
    /\ bt.phase = "loop" /\ bt.kind = "batch"
    /\ bt.begun
    /\ bt.todo = <<>>
    /\ bt' = [bt EXCEPT
            !.results = <<[note_id |-> bt.note_ids[bt.i],
                           annotations |-> bt.anns,
                           processing_time_seconds |->
                               IF bt.anns # <<>> THEN bt.secs ELSE 0]>> \o @,
            !.i = @ + 1, !.begun = FALSE, !.anns = <<>>, !.secs = 0]
    /\ UNCHANGED <<jobVars, sessVars, libVars>>

\* results.append(ProcessNoteResponse(...)) after the note's last prompt
BatchNoteDone ==
    /\ bt.phase = "loop" /\ bt.kind = "batch"
    /\ bt.begun
    /\ bt.todo = <<>>
    /\ bt' = [bt EXCEPT
            !.results = Append(@, [note_id |-> bt.note_ids[bt.i],
                                   annotations |-> bt.anns,
                                   processing_time_seconds |->
                                       IF bt.anns # <<>> THEN bt.secs ELSE 0]),
            !.i = @ + 1, !.begun = FALSE, !.anns = <<>>, !.secs = 0]
    /\ UNCHANGED <<jobVars, sessVars, libVars>>

\* return BatchProcessResponse(results=results, ...)
BatchReturn ==
    /\ bt.phase = "loop" /\ bt.kind = "batch"
    /\ ~bt.begun
    /\ bt.i > Len(bt.note_ids)
    /\ bt' = [bt EXCEPT !.phase = "done", !.code = 200]
    /\ UNCHANGED <<jobVars, sessVars, libVars>>

\* POST /api/annotate/process, up to the loop: the availability check (503),
\* then the session is loaded inside try/except (without the session there
\* is no mapping and no report_type), then the prompt types are filtered
process_note(n, pts, up) ==
    /\ bt.phase = "idle"
    /\ disk = "whole"
    /\ LET r == Request("one", <<n>>, pts, up)
           report_type == IF sess.exists /\ n \in NoteIds
                            THEN ReportTypeOf(n) ELSE ""
       IN bt' = IF ~up
                  THEN [r EXCEPT !.phase = "done", !.code = 503]
                  ELSE [Loaded(r) EXCEPT
                          !.phase = "loop", !.begun = TRUE,
                          !.todo = prompt_types_to_process(
                                      Loaded(r).has_mapping, Loaded(r).mapping,
                                      report_type, pts)]
    /\ UNCHANGED <<jobVars, sessVars, libVars>>

\* return ProcessNoteResponse(note_id, note_text, annotations, ...)
ProcessReturn ==
    /\ bt.phase = "loop" /\ bt.kind = "one"
    /\ bt.todo = <<>>
    /\ bt' = [bt EXCEPT
            !.results = <<[note_id |-> bt.note_ids[1],
                           annotations |-> bt.anns,
                           processing_time_seconds |-> bt.secs]>>,
            !.phase = "done", !.code = 200, !.begun = FALSE, !.anns = <<>>,
            !.secs = 0]
    /\ UNCHANGED <<jobVars, sessVars, libVars>>

\* the response has been sent; the event loop takes the next request
ResponseSent ==
    /\ bt.phase = "done"
    /\ bt' = NoRequest
    /\ UNCHANGED <<jobVars, sessVars, libVars>>

\* an annotation saved by the client for note n1
SavedAnnotations == [NoAnnotations EXCEPT ![<<"n1", "p1">>] = Plain]

\* the annotate routes, on a session created with all prompt types; the
\* handlers have no await, so each request runs to its response before the
\* event loop starts another handler
BatchNext ==
    \/ \E m \in Mappings : bt.phase = "idle" /\ create_session(PromptNames, TRUE, m)
    \/ bt.phase = "idle" /\ create_session(PromptNames, FALSE, EmptyMapping)
    \/ bt.phase = "idle" /\ update_session(SavedAnnotations)
    \/ bt.phase = "idle" /\ SaveWritten
    \/ \E nids \in NoteIdLists, pts \in PromptTypeLists, up \in BOOLEAN :
          batch_process(nids, pts, up)
    \/ BatchNextNote
    \/ \E raises \in BOOLEAN, d \in Durations : ProcessPair(raises, d)
    \/ BatchNoteDone
    \/ BatchReturn
    \/ \E n \in AllNoteIds, pts \in PromptTypeLists, up \in BOOLEAN :
          process_note(n, pts, up)
    \/ ProcessReturn
    \/ ResponseSent

\* ---------------------------------------------------------------- exports
\* a date string: empty, ISO (YYYY-MM-DD) or DD/MM/YYYY, and the day it names
NoDate == [fmt |-> "none", day |-> "-"]
IsoDate(d) == [fmt |-> "iso", day |-> d]
DmyDate(d) == [fmt |-> "dmy", day |-> d]

\* _normalize_date: '' stays '', DD/MM/YYYY is returned as it is, an ISO date
\* is rewritten to DD/MM/YYYY
normalize_date(x) == IF x.fmt = "none" THEN NoDate ELSE DmyDate(x.day)

\* the notes of the session: p_id and date
PatientOf(n) == IF n = "n1" THEN "P1" ELSE "P2"
NoteDate(n) == IsoDate("d1")

\* prompt types with an annotation, and their core variable (entity, field)
\* in _build_prompt_to_core_variable_mapping: the predefined mapping, and
\* diagnosiscode-int through its entity_mapping in prompts.json
ExportPrompts == {"histological", "tumorsite", "gender", "diagnosiscode-int"}
prompt_mapping(pt) ==
    CASE pt = "histological" -> <<"Diagnosis", "histologySubgroup">>
      [] pt = "tumorsite" -> <<"Diagnosis", "subsite">>
      [] pt = "gender" -> <<"Patient", "sex">>
      [] OTHER -> <<"Diagnosis", "diagnosisCode">>

\* _extract_entity_from_core_variable: core_variable.split('.')[0]
extract_entity_from_core_variable(cv) == cv[1]

\* annotation_text: empty, or a template label followed by the value;
\* _extract_value_from_annotation keeps what follows the label
NoText == <<>>
SomeText == <<"Label: ", "v">>
extract_value_from_annotation(text) == text[Len(text)]

\* one annotation of the session, with the keys it is stored under
ExportEntries ==
    {e \in [note_id : NoteIds, prompt_type : ExportPrompts,
            annotation_text : {NoText, SomeText},
            extracted_date : {NoDate, DmyDate("d1"), IsoDate("d2")}] :
        e.annotation_text = NoText => e.extracted_date = NoDate}

\* the query code combine_icdo3_code saves for a note
UnifiedQueryCode == "8805/3-C71.7"

\* the session before any annotation is saved
NoExport ==
    [annotations |-> <<>>, unified |-> {}, exported |-> FALSE,
     rows |-> <<>>, coded |-> <<>>]

\* an annotation is saved: session['annotations'][note_id][prompt_type] is
\* a new key of the note's dictionary (a new note's dictionary comes last)
AddAnnotation(e) ==
    /\ Len(ex.annotations) < MaxExportAnn
    /\ \A i \in DOMAIN ex.annotations :
          ~(ex.annotations[i].note_id = e.note_id
              /\ ex.annotations[i].prompt_type = e.prompt_type)
    /\ LET a == ex.annotations
           same == {i \in DOMAIN a : a[i].note_id = e.note_id}
           last == CHOOSE i \in same : \A j \in same : j <= i
       IN ex' = [NoExport EXCEPT
                   !.unified = ex.unified,
                   !.annotations =
                       IF same = {} THEN Append(a, e)
                       ELSE SubSeq(a, 1, last) \o <<e>> \o SubSeq(a, last + 1, Len(a))]
    /\ ExportFrame

\* POST /api/annotate/icdo3/combine: the unified code of the note is saved
combine_icdo3_code(n) ==
    /\ n \notin ex.unified
    /\ ex' = [NoExport EXCEPT !.annotations = ex.annotations,
                              !.unified = ex.unified \cup {n}]
    /\ ExportFrame

\* a record key that leaves the date out
RecordKey_NoDate(patient_id, entity, date_ref) == <<patient_id, entity>>

\* record_key = (patient_id, entity, date_ref)
RecordKey(patient_id, entity, date_ref) == <<patient_id, entity, date_ref>>

\* _build_export_rows: the loop over the annotations; tracker lists the
\* record keys seen so far, a key's record_id is its place in the list
\* (current_record_id is the length of the list)
RECURSIVE BuildRowsFrom(_, _, _)
BuildRowsFrom(anns, tracker, rows) ==
    IF anns = <<>> THEN rows
    ELSE
      LET ann == Head(anns)
          core_variable == prompt_mapping(ann.prompt_type)
          entity == extract_entity_from_core_variable(core_variable)
          patient_id == PatientOf(ann.note_id)
          date_ref == IF ann.extracted_date # NoDate
                        THEN normalize_date(ann.extracted_date)
                        ELSE normalize_date(NoteDate(ann.note_id))
          record_key == RecordKey(patient_id, entity, date_ref)
          tracker2 == IF \E i \in DOMAIN tracker : tracker[i] = record_key
                        THEN tracker ELSE Append(tracker, record_key)
          record_id == CHOOSE i \in DOMAIN tracker2 : tracker2[i] = record_key
      IN IF ann.annotation_text = NoText
           THEN BuildRowsFrom(Tail(anns), tracker, rows)
           ELSE BuildRowsFrom(Tail(anns), tracker2,
                  Append(rows,
                    [note_id |-> ann.note_id,
                     prompt_type |-> ann.prompt_type,
                     patient_id |-> patient_id,
                     core_variable |-> core_variable,
                     date_ref |-> date_ref,
                     value |-> <<extract_value_from_annotation(ann.annotation_text)>>,
                     record_id |-> record_id,
                     types |-> "CodeableConcept",
                     entity |-> entity,
                     match_method |-> ""]))

build_export_rows(anns) == BuildRowsFrom(anns, <<>>, <<>>)

\* Variables that get merged into diagnosisCode
DIAGNOSIS_MERGE_VARS == {<<"Diagnosis", "histologySubgroup">>, <<"Diagnosis", "subsite">>}

\* CodeResolver.resolve: Patient.sex has a category and the label resolves;
\* a core variable without a category is unresolved
Resolve(erow) ==
    IF erow.core_variable = <<"Patient", "sex">>
      THEN [erow EXCEPT !.value = <<"code">>, !.match_method = "exact"]
      ELSE [erow EXCEPT !.value = <<"UNRESOLVED::">> \o @, !.match_method = "unresolved"]

\* export_session_coded: the loop over the built rows; added is
\* diag_code_added. The rows keep the note_id here to tell the notes apart.
RECURSIVE CodedRowsFrom(_, _, _, _)
CodedRowsFrom(rows, unified, added, coded) ==
    IF rows = <<>> THEN coded
    ELSE
      LET erow == Head(rows)
          merged == [erow EXCEPT
                       !.core_variable = <<"Diagnosis", "diagnosisCode">>,
                       !.value = IF erow.note_id \in unified
                                   THEN <<UnifiedQueryCode>>
                                   ELSE <<"UNRESOLVED::", "no_unified_icdo3_code">>,
                       !.types = "CodeableConcept",
                       !.entity = "Diagnosis",
                       !.match_method = IF erow.note_id \in unified
                                          THEN "unified_icdo3" ELSE "unresolved"]
      IN IF erow.core_variable \in DIAGNOSIS_MERGE_VARS
           THEN IF erow.note_id \notin added
                  THEN CodedRowsFrom(Tail(rows), unified, added \cup {erow.note_id},
                                     Append(coded, merged))
                  ELSE CodedRowsFrom(Tail(rows), unified, added, coded)
           ELSE CodedRowsFrom(Tail(rows), unified, added, Append(coded, Resolve(erow)))

export_session_coded(session) ==
    CodedRowsFrom(build_export_rows(session.annotations), session.unified, {}, <<>>)

\* GET /{session_id}/export and /export/codes read the session
Export ==
    /\ ~ex.exported
    /\ ex' = [ex EXCEPT !.exported = TRUE,
                        !.rows = build_export_rows(ex.annotations),
                        !.coded = export_session_coded(ex)]
    /\ ExportFrame

ExportNext ==
    \/ \E e \in ExportEntries : AddAnnotation(e)
    \/ \E n \in NoteIds : combine_icdo3_code(n)
    \/ Export

\* ------------------------------------------------------- the prompt cache
\* latest_prompts/{CENTER}/prompts.json of two centers, one prompt "a" each
CacheCenters == {"INT", "VGR"}
CacheKeys == {"a-int", "a-vgr"}
CenterOfKey(k) == IF k = "a-int" THEN "INT" ELSE "VGR"
TemplateVersions == {"v1", "v2"}

\* the template text stored in a file, and _adapt_prompts_for_center:
\* {{note_original_text}} becomes {note}, {{annotation}} is removed
RawTemplate(v) == <<"{{note_original_text}}", v, "{{annotation}}">>
AdaptTemplate(t) ==
    SelectSeq([i \in DOMAIN t |->
                  IF t[i] = "{{note_original_text}}" THEN "{note}" ELSE t[i]],
              LAMBDA x : x # "{{annotation}}")
NoTemplate == <<>>

\* the module state at import: _PROMPTS = {}, _PROMPTS_DIR_MTIMES = {},
\* _prompts_loaded = False; phase, modified, before and resolved record the
\* last modification and the last resolution for the properties
NoCache ==
    [file |-> [c \in CacheCenters |-> [version |-> "v1", mtime |-> 1]],
     PROMPTS |-> [k \in CacheKeys |-> NoTemplate],
     PROMPTS_DIR_MTIMES |-> [c \in CacheCenters |-> 0],
     prompts_loaded |-> FALSE,
     phase |-> "fresh", modified |-> "none",
     before |-> [k \in CacheKeys |-> NoTemplate],
     resolved |-> [key |-> "none", template |-> NoTemplate]]

\* adapt_all_prompts(prompts_dir): every center's file is read
adapt_all_prompts(file) ==
    [k \in CacheKeys |-> AdaptTemplate(RawTemplate(file[CenterOfKey(k)].version))]

\* _ensure_prompts_loaded: a center whose st_mtime is greater than the
\* recorded one marks files_changed and records the new time; all centers
\* are re-read when not loaded yet or when a file changed
ensure_prompts_loaded(pc) ==
    LET changed == {c \in CacheCenters : pc.file[c].mtime > pc.PROMPTS_DIR_MTIMES[c]}
    IN [pc EXCEPT
          !.PROMPTS_DIR_MTIMES = [c \in CacheCenters |->
              IF c \in changed THEN pc.file[c].mtime ELSE pc.PROMPTS_DIR_MTIMES[c]],
          !.PROMPTS = IF ~pc.prompts_loaded \/ changed # {}
                        THEN adapt_all_prompts(pc.file) ELSE pc.PROMPTS,
          !.prompts_loaded = TRUE]

\* prompts.json of center c is modified on disk: new text, and the
\* modification time the writer leaves (the time of the write, which the
\* clock's granularity can make equal to the previous one, or the time a
\* moved or copied file brings along)
ModifyPromptsFile(c, v, mt) ==
    /\ pcache.phase # "modified"
    /\ v # pcache.file[c].version
    /\ pcache' = [pcache EXCEPT
            !.file[c] = [version |-> v, mtime |-> mt],
            !.phase = "modified",
            !.modified = c,
            !.before = ensure_prompts_loaded(pcache).PROMPTS,
            !.resolved = [key |-> "none", template |-> NoTemplate]]
    /\ CacheFrame

\* _get_prompt(task_key, ...): _ensure_prompts_loaded(), then
\* template = _PROMPTS[task_key]["template"]
get_prompt(key) ==
    /\ LET pc == ensure_prompts_loaded(pcache)
       IN pcache' = [pc EXCEPT
              !.resolved = [key |-> key, template |-> pc.PROMPTS[key]],
              !.phase = IF pcache.phase = "modified" THEN "resolved" ELSE @]
    /\ CacheFrame

CacheNext ==
    \/ \E c \in CacheCenters, v \in TemplateVersions, mt \in 1..MaxMtime :
          ModifyPromptsFile(c, v, mt)
    \/ \E key \in CacheKeys : get_prompt(key)

\* ------------------------------------------------------- the prompt files
\* a name is the sequence of its hyphen-free segments: "a-int" is <<"a", "int">>
LowerSeg(seg) == IF seg = "INT" THEN "int" ELSE seg
Lower(name) == [i \in DOMAIN name |-> LowerSeg(name[i])]

\* directory names under latest_prompts/ and keys of a prompts.json
PromptCenters == {<<"INT">>, <<"int">>, <<"x", "int">>}
sorted_centers == <<(<<"INT">>), (<<"int">>), (<<"x", "int">>)>>
PromptIds == {<<"a">>, <<"a", "x">>, <<"a", "int">>, <<"a", "x", "int">>}
PromptTexts == {" ", "t1", "t2"}
strip(text) == IF text = " " THEN "" ELSE text
NoPrompt == "absent"
DEFAULT_CENTER == <<"INT">>

NoPromptsFile == [exists |-> FALSE, prompts |-> [k \in PromptIds |-> NoPrompt]]
EmptyPromptsFile == [exists |-> TRUE, prompts |-> [k \in PromptIds |-> NoPrompt]]

\* f"{key}-{center_lower}"
suffixed_key(key, center) == key \o Lower(center)
\* key.endswith(suffix) with suffix = f"-{center_lower}"
EndsWithSuffix(key, center) ==
    /\ Len(key) > Len(center)
    /\ SubSeq(key, Len(key) - Len(center) + 1, Len(key)) = Lower(center)
\* raw_key = key[:-len(suffix)] if key.endswith(suffix) else key
raw_key(key, center) ==
    IF EndsWithSuffix(key, center)
      THEN SubSeq(key, 1, Len(key) - Len(center)) ELSE key

StoredKeys(files, c) == {k \in PromptIds : files[c].prompts[k] # NoPrompt}
StoredPairs(files) ==
    {pair \in PromptCenters \X PromptIds :
        files[pair[1]].exists /\ pair[2] \in StoredKeys(files, pair[1])}

\* load_prompts_json: for each center directory with a prompts.json, the
\* dict of its prompts under suffixed keys
LoadCenter(files, c) ==
    [sk \in {suffixed_key(k, c) : k \in StoredKeys(files, c)} |->
        files[c].prompts[CHOOSE k \in StoredKeys(files, c) : suffixed_key(k, c) = sk]]
load_prompts_json(files) ==
    [c \in {d \in PromptCenters : files[d].exists} |-> LoadCenter(files, c)]

\* adapt_all_prompts_from_dir: the centers in sorted order, each suffixed
\* key assigned into one flat dict, a later assignment replacing an earlier
RECURSIVE FlatFrom(_, _, _)
FlatFrom(files, i, flat) ==
    IF i > Len(sorted_centers) THEN flat
    ELSE LET c == sorted_centers[i]
             dict == IF files[c].exists THEN LoadCenter(files, c) ELSE <<>>
         IN FlatFrom(files, i + 1,
                [sk \in DOMAIN flat \cup DOMAIN dict |->
                    IF sk \in DOMAIN dict
                      THEN [template |-> dict[sk], center |-> c]
                      ELSE flat[sk]])
adapt_all_prompts_from_dir(files) == FlatFrom(files, 1, <<>>)

\* save_prompts_json for one center: the loaded entries, then the created
\* entry (inserted last), each written under its raw key
SavedPrompts(dict, c, new_key, new_value) ==
    [k \in PromptIds |->
        IF raw_key(new_key, c) = k THEN new_value
        ELSE IF \E sk \in DOMAIN dict : raw_key(sk, c) = k
          THEN dict[CHOOSE sk \in DOMAIN dict : raw_key(sk, c) = k]
          ELSE NoPrompt]
\* ... and for a center nothing was created in
ResavedPrompts(dict, c) ==
    [k \in PromptIds |->
        IF \E sk \in DOMAIN dict : raw_key(sk, c) = k
          THEN dict[CHOOSE sk \in DOMAIN dict : raw_key(sk, c) = k]
          ELSE NoPrompt]

\* the tree as installed: INT/prompts.json with one prompt; last is the
\* last request, its answer and the files it found
InstalledFiles ==
    [c \in PromptCenters |->
        IF c = DEFAULT_CENTER
          THEN [EmptyPromptsFile EXCEPT !.prompts[<<"a">>] = "t1"]
          ELSE NoPromptsFile]
NoPromptFiles ==
    [files |-> InstalledFiles,
     prev |-> InstalledFiles,
     creates |-> 0,
     last |-> [op |-> "none", center |-> <<>>, id |-> <<>>, text |-> "",
               code |-> 0]]

\* POST /api/prompts/centers
create_center(c) ==
    /\ pfiles.creates < MaxCreates
    /\ IF pfiles.files[c].exists
         THEN pfiles' = [pfiles EXCEPT
                 !.prev = pfiles.files,
                 !.last = [op |-> "create_center", center |-> c, id |-> <<>>,
                           text |-> "", code |-> 400]]
         ELSE pfiles' = [pfiles EXCEPT
                 !.prev = pfiles.files,
                 !.files[c] = EmptyPromptsFile,
                 !.creates = @ + 1,
                 !.last = [op |-> "create_center", center |-> c, id |-> <<>>,
                           text |-> "", code |-> 200]]
    /\ FilesFrame

\* POST /api/prompts
create_prompt(c, prompt_type, text) ==
    LET prompts_data == load_prompts_json(pfiles.files)
        center_prompts == IF c \in DOMAIN prompts_data THEN prompts_data[c] ELSE <<>>
        template == strip(text)
        answer(code) == [op |-> "create_prompt", center |-> c, id |-> prompt_type,
                         text |-> template, code |-> code]
    IN /\ pfiles.creates < MaxCreates
       /\ IF prompt_type \in DOMAIN center_prompts \/ template = ""
            THEN pfiles' = [pfiles EXCEPT !.prev = pfiles.files, !.last = answer(400)]
            ELSE pfiles' = [pfiles EXCEPT
                    !.prev = pfiles.files,
                    !.files = [d \in PromptCenters |->
                        IF d = c
                          THEN [exists |-> TRUE,
                                prompts |-> SavedPrompts(center_prompts, c,
                                                         prompt_type, template)]
                        ELSE IF d \in DOMAIN prompts_data
                          THEN [exists |-> TRUE,
                                prompts |-> ResavedPrompts(prompts_data[d], d)]
                          ELSE pfiles.files[d]],
                    !.creates = @ + 1,
                    !.last = answer(200)]
       /\ FilesFrame

PromptNext ==
    \/ \E c \in PromptCenters : create_center(c)
    \/ \E c \in PromptCenters, prompt_type \in PromptIds, text \in PromptTexts :
          create_prompt(c, prompt_type, text)

\* ------------------------------------------------- the dictionary index
\* texts are sequences of characters; scores are in 1/10000
LowerChar(ch) ==
    IF ch = "A" THEN "a" ELSE IF ch = "B" THEN "b" ELSE IF ch = "C" THEN "c" ELSE ch

\* _normalize_text: lowercase, runs of whitespace collapsed to one space,
\* leading and trailing whitespace removed
normalize_text(text) ==
    LET keep == {i \in DOMAIN text :
                    \/ text[i] # " "
                    \/ /\ i > 1
                       /\ text[i - 1] # " "
                       /\ \E j \in (i + 1)..Len(text) : text[j] # " "}
        idx(k) == CHOOSE i \in keep : Cardinality({j \in keep : j < i}) = k - 1
    IN [k \in 1..Cardinality(keep) |-> LowerChar(text[idx(k)])]

\* a in b, for strings
Contains(a, b) ==
    \E i \in 0..(Len(b) - Len(a)) : SubSeq(b, i + 1, i + Len(a)) = a

\* the total size of SequenceMatcher's matching blocks: the longest common
\* block (the earliest one in a, then in b), then the same to its left and
\* to its right
RECURSIVE MatchingSize(_, _)
MatchingSize(a, b) ==
    LET blocks == {blk \in (1..Len(a)) \X (1..Len(b)) \X (1..Len(a)) :
                      /\ blk[1] + blk[3] - 1 <= Len(a)
                      /\ blk[2] + blk[3] - 1 <= Len(b)
                      /\ SubSeq(a, blk[1], blk[1] + blk[3] - 1)
                           = SubSeq(b, blk[2], blk[2] + blk[3] - 1)}
    IN IF blocks = {} THEN 0
       ELSE LET best == CHOOSE blk \in blocks : \A o \in blocks :
                            \/ blk[3] > o[3]
                            \/ blk[3] = o[3] /\ blk[1] < o[1]
                            \/ blk[3] = o[3] /\ blk[1] = o[1] /\ blk[2] <= o[2]
            IN best[3]
               + MatchingSize(SubSeq(a, 1, best[1] - 1), SubSeq(b, 1, best[2] - 1))
               + MatchingSize(SubSeq(a, best[1] + best[3], Len(a)),
                              SubSeq(b, best[2] + best[3], Len(b)))

\* _score_text_similarity
score_text_similarity(search_text, candidate_text) ==
    LET search_norm == normalize_text(search_text)
        text_norm == normalize_text(candidate_text)
    IN IF search_norm = <<>> \/ text_norm = <<>> THEN 0
       ELSE IF Contains(search_norm, text_norm)
         THEN 8500 + (1000 * Len(search_norm)) \div Len(text_norm)
       ELSE IF Contains(text_norm, search_norm)
         THEN 7500 + (1000 * Len(text_norm)) \div Len(search_norm)
       ELSE (7000 * 2 * MatchingSize(search_norm, text_norm))
               \div (Len(search_norm) + Len(text_norm))

\* the rows of the dictionary CSV, in file order
Dictionary ==
    << [Query |-> "8805/3-C71.7", Morphology |-> "8805/3", Topography |-> "C71.7",
        NAME |-> <<"a", "b">>],
       [Query |-> "8805/3-C49.9", Morphology |-> "8805/3", Topography |-> "C49.9",
        NAME |-> <<"c", "d">>],
       [Query |-> "8140/3-C71.7", Morphology |-> "8140/3", Topography |-> "C71.7",
        NAME |-> <<"a", "c">>] >>

\* the arguments of a query; "" and <<>> are an argument not given
QueryCodes == {"", "8805/3-C71.7", "9999/9-C00.0"}
MorphologyCodes == {"", "8805/3", "8140/3"}
TopographyCodes == {"", "C71.7", "C49.9"}
SearchTexts == {<<>>, <<"A", "b">>, <<"a">>, <<"c", "d", " ">>, <<"b", "c">>}
NoQuery ==
    [histology_text |-> <<>>, topography_text |-> <<>>, morphology_code |-> "",
     topography_code |-> "", query_code |-> "", n |-> 1]

Min2(x, y) == IF x <= y THEN x ELSE y
Max2(x, y) == IF x >= y THEN x ELSE y

\* the score each strategy gives a row it matches
MorphologyScore(qr, i) ==
    Min2(IF qr.topography_text # <<>>
           THEN Max2(6000, 6000 + (score_text_similarity(qr.topography_text,
                                       Dictionary[i].NAME) * 15) \div 100)
           ELSE 6000,
         7500)
TopographyScore(qr, i) ==
    Min2(IF qr.histology_text # <<>>
           THEN Max2(5000, 5000 + (score_text_similarity(qr.histology_text,
                                       Dictionary[i].NAME) * 15) \div 100)
           ELSE 5000,
         6500)
TextScore(search_text, i) ==
    Min2(3000 + (score_text_similarity(search_text, Dictionary[i].NAME) * 3) \div 10,
         6000)
\* the rows a strategy matches
CombinedMatches(qr) ==
    {i \in DOMAIN Dictionary :
        /\ Dictionary[i].Morphology = qr.morphology_code
        /\ Dictionary[i].Topography = qr.topography_code}
MorphologyMatches(qr) ==
    {i \in DOMAIN Dictionary : Dictionary[i].Morphology = qr.morphology_code}
TopographyMatches(qr) ==
    {i \in DOMAIN Dictionary : Dictionary[i].Topography = qr.topography_code}
TextMatches(search_text) ==
    IF normalize_text(search_text) = <<>> THEN {}
    ELSE {i \in DOMAIN Dictionary :
             score_text_similarity(search_text, Dictionary[i].NAME) >= 3000}

\* one strategy's loop over its rows: a row whose key is not in
\* candidates_dict yet is added with the strategy's score
RECURSIVE AddRows(_, _, _, _, _)
AddRows(candidates, i, matches, score, method) ==
    IF i > Len(Dictionary) THEN candidates
    ELSE LET key == Dictionary[i].Query
             present == \E c \in DOMAIN candidates : candidates[c].key = key
         IN AddRows(IF i \in matches /\ key # "" /\ ~present
                      THEN Append(candidates,
                                  [key |-> key, dictrow |-> i,
                                   score |-> score[i], method |-> method])
                      ELSE candidates,
                    i + 1, matches, score, method)

\* sorted(candidates_dict.values(), key=score, reverse=True): stable
RECURSIVE SortedByScore(_, _)
SortedByScore(candidates, sorted) ==
    IF candidates = <<>> THEN sorted
    ELSE LET c == Head(candidates)
             before == Cardinality({k \in DOMAIN sorted : sorted[k].score >= c.score})
         IN SortedByScore(Tail(candidates),
                SubSeq(sorted, 1, before) \o <<c>>
                    \o SubSeq(sorted, before + 1, Len(sorted)))

find_top_candidates(qr) ==
    LET exact == IF qr.query_code # ""
                      /\ \E i \in DOMAIN Dictionary : Dictionary[i].Query = qr.query_code
                   THEN LET i == CHOOSE i \in DOMAIN Dictionary :
                                    Dictionary[i].Query = qr.query_code
                        IN <<[key |-> qr.query_code, dictrow |-> i,
                              score |-> 10000, method |-> "exact"]>>
                   ELSE <<>>
        combined == IF qr.morphology_code # "" /\ qr.topography_code # ""
                      THEN AddRows(exact, 1, CombinedMatches(qr),
                                   [i \in DOMAIN Dictionary |-> 9000], "combined")
                      ELSE exact
        morphology == IF qr.morphology_code # ""
                        THEN AddRows(combined, 1, MorphologyMatches(qr),
                                     [i \in DOMAIN Dictionary |-> MorphologyScore(qr, i)],
                                     "morphology")
                        ELSE combined
        topography == IF qr.topography_code # ""
                        THEN AddRows(morphology, 1, TopographyMatches(qr),
                                     [i \in DOMAIN Dictionary |-> TopographyScore(qr, i)],
                                     "topography")
                        ELSE morphology
        text1 == IF qr.histology_text # <<>>
                   THEN AddRows(topography, 1, TextMatches(qr.histology_text),
                                [i \in DOMAIN Dictionary |-> TextScore(qr.histology_text, i)],
                                "text")
                   ELSE topography
        text2 == IF qr.topography_text # <<>>
                   THEN AddRows(text1, 1, TextMatches(qr.topography_text),
                                [i \in DOMAIN Dictionary |-> TextScore(qr.topography_text, i)],
                                "text")
                   ELSE text1
        sorted_candidates == SortedByScore(text2, <<>>)
    IN SubSeq(sorted_candidates, 1, Min2(qr.n, Len(sorted_candidates)))

\* no query asked, or the last one's list taken by its caller
NoTopCandidates == [asked |-> FALSE, query |-> NoQuery, result |-> <<>>]

\* one query of the dictionary
FindTopCandidates(qr) ==
    /\ ~topc.asked
    /\ topc' = [asked |-> TRUE, query |-> qr, result |-> find_top_candidates(qr)]
    /\ CandsFrame

\* the caller goes on with the list it received
CandidatesTaken ==
    /\ topc.asked
    /\ topc' = NoTopCandidates
    /\ CandsFrame

CandsNext ==
    \/ CandidatesTaken
    \/ \E ht \in SearchTexts, tt \in SearchTexts, mc \in MorphologyCodes,
          tc \in TopographyCodes, qc \in QueryCodes, n \in 1..MaxTopN :
          FindTopCandidates([histology_text |-> ht, topography_text |-> tt,
                             morphology_code |-> mc, topography_code |-> tc,
                             query_code |-> qc, n |-> n])

\* ------------------------------------------------------- the notes upload
\* a field value is the sequence of the segments its ";" separate: a value
\* without a delimiter is one segment
required_columns == {"text", "date", "p_id", "note_id", "report_type"}
NotesHeaders ==
    {<<"text", "date", "p_id", "note_id", "report_type">>,
     <<"text", "date", "p_id", "note_id", "report_type", "annotations">>,
     <<"note_id", "text", "date", "p_id", "report_type">>,
     <<"text", "date", "p_id", "note_id">>}
TextSegments == {"a", " b", "c "}
NoteTexts == UNION {[1..k -> TextSegments] : k \in 1..MaxSegments}
NoteDates == {"2024-01-01", ""}

\* str.strip() at the left and at the right end of a segment
LStrip(seg) == IF seg = " b" THEN "b" ELSE seg
RStrip(seg) == IF seg = "c " THEN "c" ELSE seg
\* p.strip().strip('"').strip() of a value
StripValue(v) ==
    [i \in DOMAIN v |->
        LET l == IF i = 1 THEN LStrip(v[i]) ELSE v[i]
        IN IF i = Len(v) THEN RStrip(l) ELSE l]

\* the value a column has in the uploaded row
ColumnValue(col, text, date) ==
    IF col = "text" THEN text
    ELSE IF col = "date" THEN <<date>>
    ELSE IF col = "p_id" THEN <<"P1">>
    ELSE IF col = "note_id" THEN <<"100">>
    ELSE IF col = "report_type" THEN <<"CCE">>
    ELSE <<"k: v">>

\* line.split(';') of the row's line: a value with delimiters inside
\* gives one part per segment
RECURSIVE LineParts(_, _, _)
LineParts(header, text, date) ==
    IF header = <<>> THEN <<>>
    ELSE ColumnValue(Head(header), text, date) \o LineParts(Tail(header), text, date)

ColumnsOf(header) == {header[i] : i \in DOMAIN header}
NoFrame == [ok |-> FALSE, columns |-> <<>>, cells |-> <<>>]

\* _parse_csv_with_reconstruction for a header line and one data line
parse_csv_with_reconstruction(header, parts) ==
    IF ~(required_columns \subseteq ColumnsOf(header)) THEN NoFrame
    ELSE LET expected_cols == Len(header)
             excess == Len(parts) - expected_cols
             all_parts ==
                 IF Len(parts) = expected_cols
                   THEN [i \in 1..expected_cols |-> <<parts[i]>>]
                 ELSE IF Len(parts) > expected_cols
                   THEN [i \in 1..expected_cols |->
                           IF i = 1 THEN SubSeq(parts, 1, excess + 1)
                           ELSE <<parts[excess + i]>>]
                 ELSE [i \in 1..expected_cols |->
                           IF i <= Len(parts) THEN <<parts[i]>> ELSE <<"">>]
         IN [ok |-> TRUE, columns |-> header,
             cells |-> [i \in 1..expected_cols |-> StripValue(all_parts[i])]]

\* df[col] of the parsed row
Cell(frame, col) ==
    frame.cells[CHOOSE i \in DOMAIN frame.columns : frame.columns[i] = col]

\* nothing uploaded, or the last upload answered
NoUpload == [uploaded |-> FALSE, header |-> <<>>, text |-> <<>>, date |-> "",
             frame |-> NoFrame]

\* a notes CSV of one row is uploaded and parsed
UploadNotes(header, text, date) ==
    /\ ~upl.uploaded
    /\ upl' = [uploaded |-> TRUE, header |-> header, text |-> text, date |-> date,
               frame |-> parse_csv_with_reconstruction(header,
                                                       LineParts(header, text, date))]
    /\ UploadFrame

UploadAnswered ==
    /\ upl.uploaded
    /\ upl' = NoUpload
    /\ UploadFrame

UploadNext ==
    \/ UploadAnswered
    \/ \E header \in NotesHeaders, text \in NoteTexts, date \in NoteDates :
          UploadNotes(header, text, date)

\* ---------------------------------------------------------- the evaluation
\* an annotation is the sequence of its words; a label keeps its colon
LowerWord(w) ==
    IF w = "Not" THEN "not" ELSE IF w = "Unknown" THEN "unknown"
    ELSE IF w = "Grade:" THEN "grade:" ELSE IF w = "G2" THEN "g2"
    ELSE IF w = "G3" THEN "g3" ELSE IF w = "N/A" THEN "n/a" ELSE w
\* normalize_string: lowercase and strip; with remove_trailing_punctuation
\* the punctuation that ends the string is removed
normalize_string(text) == [i \in DOMAIN text |-> LowerWord(text[i])]
normalize_string_flex(text) ==
    LET n == normalize_string(text)
    IN IF n # <<>> /\ n[Len(n)] = "grade:"
         THEN [n EXCEPT ![Len(n)] = "grade"] ELSE n

GoldTexts ==
    {<<>>, <<"Not", "applicable">>, <<"Unknown">>, <<"N/A">>,
     <<"Grade:", "Unknown">>, <<"Grade:", "G2">>}
PredictedTexts ==
    {<<>>, <<"[select", "result]">>, <<"Grade:", "[x]">>, <<"[x]">>,
     <<"tumour", "[x]", "seen">>, <<"Grade:", "G2">>, <<"G3">>, <<"Unknown">>}
FieldValues ==
    {<<>>, <<"[x]">>, <<"Unknown">>, <<"Not", "applicable">>, <<"G2">>, <<"G3">>}

HasWord(t, words) == \E i \in DOMAIN t : t[i] \in words
HasPair(t, firsts, seconds) ==
    \E i \in 1..(Len(t) - 1) : t[i] \in firsts /\ t[i + 1] \in seconds
\* ^\[.*\]$
Bracketed(t) ==
    /\ t # <<>>
    /\ t[1] \in {"[x]", "[select"}
    /\ t[Len(t)] \in {"[x]", "result]"}

\* one of _NO_ANNOTATION_PATTERNS is found in the text
NoAnnotationPattern(t) ==
    \/ HasWord(t, {"none", "n/a", "na"})
    \/ HasPair(t, {"no"}, {"annotation", "information", "data", "result",
                           "finding", "value"})
    \/ HasPair(t, {"not"}, {"applicable", "available", "found", "specified",
                            "mentioned", "present"})
    \/ \E i \in 1..(Len(t) - 2) :
          t[i] = "no" /\ t[i + 1] = "relevant" /\ t[i + 2] = "information"
    \/ HasWord(t, {"unknown"})
    \/ HasPair(t, {"select", "[select"},
               {"result", "result]", "value", "intent", "regimen", "reason",
                "where", "date"})
    \/ Bracketed(t)
    \/ t = <<>>

\* the part after the first colon that has text after it; without one, the
\* last three words of a text of more than two words
ValuePart(normalized) ==
    LET labels == {i \in 1..(Len(normalized) - 1) : normalized[i] = "grade:"}
    IN IF labels # {}
         THEN LET i == CHOOSE i \in labels : \A j \in labels : i <= j
              IN SubSeq(normalized, i + 1, Len(normalized))
       ELSE IF Len(normalized) > 2
         THEN SubSeq(normalized, Len(normalized) - 2, Len(normalized))
       ELSE normalized

is_no_annotation_indicator_NoValuePart(text) ==
    IF text = <<>> THEN TRUE
    ELSE NoAnnotationPattern(normalize_string(text))

is_no_annotation_indicator(text) ==
    IF text = <<>> THEN TRUE
    ELSE LET normalized == normalize_string(text)
         IN \/ NoAnnotationPattern(normalized)
            \/ NoAnnotationPattern(ValuePart(normalized))

\* exact_match with flexible_punctuation
exact_match(exp, pred) ==
    LET norm_expected == normalize_string(exp)
        norm_predicted == normalize_string(pred)
    IN IF norm_expected = <<>> /\ norm_predicted = <<>> THEN TRUE
       ELSE IF norm_expected = <<>> \/ norm_predicted = <<>> THEN FALSE
       ELSE \/ norm_expected = norm_predicted
            \/ normalize_string_flex(exp) = normalize_string_flex(pred)

\* cosine_similarity_score(...) >= 0.8: the texts of the model have all
\* their words in common (cosine 1) or none (cosine 0)
WordsOf(text) == {normalize_string_flex(text)[i] : i \in DOMAIN text}
high_similarity(exp, pred) ==
    IF exp = <<>> /\ pred = <<>> THEN TRUE
    ELSE IF exp = <<>> \/ pred = <<>> THEN FALSE
    ELSE WordsOf(exp) = WordsOf(pred)

\* evaluate_annotation of the engine: overall_match
base_evaluate_annotation(exp, pred) == exact_match(exp, pred) \/ high_similarity(exp, pred)

\* evaluate_annotation_with_special_cases: match_type and overall_match
evaluate_annotation_with_special_cases(exp, pred) ==
    LET expected_is_empty == exp = <<>> \/ is_no_annotation_indicator(exp)
        predicted_is_empty == pred = <<>> \/ is_no_annotation_indicator(pred)
    IN IF expected_is_empty /\ predicted_is_empty
         THEN [label |-> "both_empty", match |-> TRUE]
       ELSE IF expected_is_empty /\ ~predicted_is_empty
         THEN [label |-> "false_positive", match |-> FALSE]
       ELSE IF ~expected_is_empty /\ predicted_is_empty
         THEN [label |-> "false_negative", match |-> FALSE]
       ELSE IF base_evaluate_annotation(exp, pred)
         THEN [label |-> "match", match |-> TRUE]
       ELSE [label |-> "mismatch", match |-> FALSE]

\* is_placeholder_value
is_placeholder_value(value) ==
    IF value = <<>> THEN TRUE
    ELSE LET value_lower == normalize_string(value)
         IN \/ Bracketed(value)
            \/ Len(value_lower) > 1 /\ value_lower[1] \in {"provide", "put", "select", "enter"}
            \/ Len(value_lower) = 2 /\ value_lower[1] = "not"
                 /\ value_lower[2] \in {"specified", "available", "mentioned", "found"}
            \/ value_lower \in {<<"unknown">>, <<"n/a">>, <<"none">>}

\* compare_field_values for a field of type text: match_method and match
compare_field_values(expected_value, predicted_value, expected_annotation_empty) ==
    LET expected_is_placeholder == is_placeholder_value(expected_value)
        predicted_is_placeholder == is_placeholder_value(predicted_value)
    IN IF expected_annotation_empty
         THEN IF predicted_is_placeholder \/ predicted_value = <<>>
                THEN [label |-> "both_empty", match |-> TRUE]
                ELSE [label |-> "false_positive", match |-> FALSE]
       ELSE IF expected_is_placeholder /\ predicted_is_placeholder
         THEN [label |-> "both_placeholder", match |-> TRUE]
       ELSE IF expected_is_placeholder /\ ~predicted_is_placeholder
         THEN [label |-> "extraction_success", match |-> TRUE]
       ELSE IF ~expected_is_placeholder /\ predicted_is_placeholder
         THEN [label |-> "extraction_failed", match |-> FALSE]
       ELSE IF exact_match(expected_value, predicted_value)
         THEN [label |-> "exact", match |-> TRUE]
       ELSE IF high_similarity(expected_value, predicted_value)
         THEN [label |-> "high_similarity", match |-> TRUE]
       ELSE [label |-> "low_similarity", match |-> FALSE]

\* nothing evaluated, or the last result read
NoEvaluation ==
    [kind |-> "none", expected |-> <<>>, predicted |-> <<>>,
     expected_annotation_empty |-> FALSE,
     result |-> [label |-> "none", match |-> FALSE]]

\* the gold annotation and the prediction of a (note, prompt) pair are compared
EvaluatePair(exp, pred) ==
    /\ evalr.kind = "none"
    /\ evalr' = [kind |-> "pair", expected |-> exp, predicted |-> pred,
                 expected_annotation_empty |-> FALSE,
                 result |-> evaluate_annotation_with_special_cases(exp, pred)]
    /\ EvalFrame

\* one field of a template is compared
CompareField(expected_value, predicted_value, expected_annotation_empty) ==
    /\ evalr.kind = "none"
    /\ evalr' = [kind |-> "field", expected |-> expected_value,
                 predicted |-> predicted_value,
                 expected_annotation_empty |-> expected_annotation_empty,
                 result |-> compare_field_values(expected_value, predicted_value,
                                                 expected_annotation_empty)]
    /\ EvalFrame

EvaluationRead ==
    /\ evalr.kind # "none"
    /\ evalr' = NoEvaluation
    /\ EvalFrame

EvalNext ==
    \/ \E exp \in GoldTexts, pred \in PredictedTexts : EvaluatePair(exp, pred)
    \/ \E ev \in FieldValues, pv \in FieldValues, eae \in BOOLEAN :
          CompareField(ev, pv, eae)
    \/ EvaluationRead

\* ------------------------------------------------------------------- Init
JobInit ==
    /\ shape = "qc"
    /\ row = NoRow
    /\ cancelEv = "absent"
    /\ procEntry = FALSE
    /\ child = "none"
    /\ q = "empty"
    /\ tphase = "unborn"
    /\ ip = 1
    /\ tsub = "-"
    /\ result = "none"
    /\ pending = "none"
    /\ kst = [t \in Threads |-> "off"]
    /\ kret = [t \in Threads |-> FALSE]
    /\ kinfo = [t \in Threads |-> 0]
    /\ gen = 0
    /\ cpc = "idle"
    /\ ccur = NoRow
    /\ creq = FALSE
    /\ nCancel = 0
    /\ kpc = "idle"
    /\ nKill = 0
    /\ lastResp = NoResp
    /\ restarted = FALSE
    /\ restartStep = "-"
    /\ hist = [pTerm |-> FALSE, pKill |-> FALSE, cancelInStage |-> FALSE]

SessInit ==
    /\ sess = NoSession
    /\ sresp = SessResp("none", 0)
    /\ disk = "whole"

BatchInit == bt = NoRequest

LibInit ==
    /\ ex = NoExport
    /\ pcache = NoCache
    /\ pfiles = NoPromptFiles
    /\ topc = NoTopCandidates
    /\ upl = NoUpload
    /\ evalr = NoEvaluation

Init == JobInit /\ SessInit /\ BatchInit /\ LibInit

JobNext ==
    \/ \E s \in Shapes : StartJob(s)
    \/ TaskBegin
    \/ TaskUpdate
    \/ TaskCheck
    \/ TaskWorkOk
    \/ TaskWorkFail
    \/ TaskUse
    \/ TaskComplete
    \/ TaskCancelled
    \/ TaskFailed
    \/ TaskFinally
    \/ SubStart
    \/ SubAlive
    \/ SubCheck
    \/ SubRaiseCancelled
    \/ SubGet
    \/ SubAfter
    \/ SubJoin
    \/ SubExit
    \/ ChildOk
    \/ ChildErr
    \/ ChildExit
    \/ \E t \in Threads : KillStep(t)
    \/ CancelRead
    \/ CancelUpdate
    \/ CancelRequest
    \/ CancelReturn
    \/ KillRead
    \/ KillRequest
    \/ KillUpdate
    \/ Restart

JobSpec == Init /\ [][JobNext]_vars

SessionSpec == Init /\ [][SessNext]_vars

BatchSpec == Init /\ [][BatchNext]_vars

ExportSpec == Init /\ [][ExportNext]_vars

CacheSpec == Init /\ [][CacheNext]_vars

PromptSpec == Init /\ [][PromptNext]_vars

CandsSpec == Init /\ [][CandsNext]_vars

UploadSpec == Init /\ [][UploadNext]_vars

EvalSpec == Init /\ [][EvalNext]_vars

\* ====================================================== job properties
\* C1: in every state after the job's background task has ended, the job's
\* status row has step in {Completed, Failed, Cancelled} and progress = 100.
C1_TerminalAfterTaskEnd ==
    tphase = "ended" => (row.step \in Terminal /\ row.progress = 100)

\* C2: if /cancel sets the cancel flag while a subprocess stage is still
\* running, the job's final status (the task has ended and no request is
\* being handled) is step = Cancelled with progress = 100. Stated for the
\* runs in which no step failed on its own account and no /kill was sent.
C2_CancelInStageEndsCancelled ==
    (/\ hist.cancelInStage
     /\ tphase = "ended" /\ cpc = "idle" /\ kpc = "idle"
     /\ nKill = 0
     /\ row.result \notin {"exc:child", "exc:work"})
        => (row.step = "Cancelled" /\ row.progress = 100)

\* C3: once /cancel has returned 200 the job's status reaches a terminal
\* step: when the task has ended and no request is being handled, so that
\* nothing of the job is left to run, the step is terminal.
C3_CancelAcceptedEndsTerminal ==
    (nCancel > 0 /\ tphase = "ended" /\ cpc = "idle" /\ kpc = "idle")
        => row.step \in Terminal

\* C4: once the row has step = Cancelled, no later write changes the job's
\* step, progress or result.
C4_CancelledIsFinal ==
    [][row.step = "Cancelled" => row' = row]_vars

\* C5: if the API process restarts while the job is at a non-terminal step,
\* GET /status after the restart (before any other request touches the row)
\* reports the job as Failed.
C5_RestartReportsFailed ==
    (restarted /\ restartStep \notin Terminal /\ row.step = restartStep)
        => get_status.step = "Failed"

\* C6: on every exit path of _run_in_subprocess the child is no longer alive
\* and has been joined; on cancellation the parent sends the graceful signal
\* before any hard kill, and the child is dead when CancelledError is raised.
C6_ChildReapedOnExit ==
    /\ tphase \in {"queued", "run", "exc_cancel", "exc_error", "finally", "ended"}
          => child \in {"none", "reaped"}
    /\ hist.pKill => hist.pTerm
    /\ (tphase = "sub" /\ pending = "cancel") => child \notin AliveStates

\* C6 witness: the cancellation path has left _run_in_subprocess after the
\* parent sent SIGTERM and escalated to SIGKILL; the child is reaped.
C6_Witness ==
    /\ tphase = "exc_cancel"
    /\ hist.pTerm /\ hist.pKill
    /\ child = "reaped"

C8_AnnotationsReferToNotesAndPrompts ==
    sess.exists =>
        \A k \in Stored(sess.annotations) :
            k[1] \in NoteIds /\ k[2] \in sess.prompt_types

\* C9: in every session whose report_type_mapping is non-empty, every stored
\* annotation annotations[n][p] satisfies p in report_type_mapping[report_type
\* of note n]. Stated for the notes of the session whose report_type is a key
\* of the mapping, where the right-hand side is defined.
C9_AnnotationsAllowedByMapping ==
    (sess.exists /\ sess.has_mapping /\ DOMAIN sess.mapping # {}) =>
        \A k \in Stored(sess.annotations) :
            (k[1] \in NoteIds /\ ReportTypeOf(k[1]) \in DOMAIN sess.mapping)
                => k[2] \in sess.mapping[ReportTypeOf(k[1])]

\* C10: whenever a session has a report_type_mapping set (a mapping with at
\* least one report type), session.prompt_types contains exactly the prompt
\* types that occur in some value list of it.
C10_PromptTypesAreMappingUnion ==
    (sess.exists /\ sess.has_mapping /\ DOMAIN sess.mapping # {}) =>
        sess.prompt_types = MappingUnion(sess.mapping)

\* C11: every stored ICDO3CodeInfo with a non-empty candidates list, as
\* produced by extraction and after any sequence of accepted or rejected
\* candidate selections, has 0 <= selected_candidate_index < len(candidates)
\* and its top-level code and description equal the query_code and name of
\* candidates[selected_candidate_index].
C11_SelectionMirrorsCandidate ==
    \A k \in Stored(sess.annotations) :
        LET ann == sess.annotations[k]
        IN (ann.icdo3 /\ ann.candidates # <<>>) =>
              /\ ann.selected_candidate_index \in 0..(Len(ann.candidates) - 1)
              /\ ann.code = ann.candidates[ann.selected_candidate_index + 1].query_code
              /\ ann.description = ann.candidates[ann.selected_candidate_index + 1].name

\* C12: a remove-prompt-types request that would leave the session with no
\* prompt types is rejected with 400 (an accepted one leaves at least one
\* prompt type) and the rejected request leaves the stored session,
\* prompt_types and annotations included, unchanged.
C12_RemoveLastPromptRejected ==
    [][sresp'.op = "remove" =>
          /\ sresp'.code \in {200, 400}
          /\ sresp'.code = 200 => sess'.prompt_types # {}
          /\ sresp'.code = 400 => sess' = sess]_vars

\* C12 witness: a removal of every prompt type of a session with a stored
\* annotation has just been rejected.
C12_Witness ==
    /\ sresp = SessResp("remove", 400)
    /\ sess.prompt_types # {}
    /\ Stored(sess.annotations) # {}

\* C13: applying the same PATCH body to the same session twice leaves the
\* session file with the same contents as applying it once.
C13_RepeatedPatchSameFile ==
    sess.exists =>
        \A hasMap \in BOOLEAN, m \in Mappings :
            PatchSession(PatchSession(sess, hasMap, m), hasMap, m)
                = PatchSession(sess, hasMap, m)

\* C14: an accepted write of annotations (a candidate selection, an
\* annotation edit through PUT) replaces only the data of the note it edits:
\* the stored annotations of at most one note differ after it, so a
\* modification made to another note by an earlier request is still present.
C14_WriteReplacesOnlyItsNote ==
    [][(sresp'.op \in {"put", "select"} /\ sresp'.code = 200) =>
          Cardinality({n \in AllNoteIds :
              \E p \in PromptNames :
                  sess'.annotations[<<n, p>>] # sess.annotations[<<n, p>>]}) <= 1]_vars

\* C15: a reader that loads the session while it exists observes the complete
\* previous or the complete new contents, never a partially written or empty
\* file: its load of the file succeeds.
C15_ReaderSeesWholeFile ==
    (sess.exists /\ sresp.op = "get") => sresp.code = 200

\* ================================================= annotate properties
\* C16: in the response of process-one and process-batch, for a note whose
\* report_type has an allow-list in the session's report_type_mapping, every
\* returned annotation's prompt_type is in that allow-list and among the
\* requested prompt_types; when no requested type is in the allow-list the
\* note has no annotations.
C16_OnlyAllowedPromptsAnnotated ==
    \A ri \in DOMAIN bt.results :
        LET r == bt.results[ri]
            rt == ReportTypeOf(r.note_id)
            requested == {bt.prompt_types[k] : k \in DOMAIN bt.prompt_types}
        IN (bt.has_mapping /\ r.note_id \in NoteIds /\ rt \in DOMAIN bt.mapping) =>
              /\ \A k \in DOMAIN r.annotations :
                    r.annotations[k].prompt_type \in bt.mapping[rt] \cap requested
              /\ (bt.mapping[rt] \cap requested = {}) => r.annotations = <<>>

\* C16 witness: a response in which a note with an allow-list got an
\* annotation for the allowed one of two different requested prompt types.
C16_Witness ==
    /\ bt.phase = "done" /\ bt.code = 200
    /\ Len(bt.prompt_types) = 2 /\ bt.prompt_types[1] # bt.prompt_types[2]
    /\ \E ri \in DOMAIN bt.results :
          /\ bt.has_mapping
          /\ ReportTypeOf(bt.results[ri].note_id) \in DOMAIN bt.mapping
          /\ Len(bt.results[ri].annotations) = 1

\* C17: a batch request with note_ids = [] on an existing session returns an
\* empty result list without processing any pair, whether or not the LLM
\* server is reachable.
C17_EmptyBatchAnswered ==
    (bt.phase = "done" /\ bt.kind = "batch" /\ bt.note_ids = <<>> /\ bt.code # 404) =>
        /\ bt.code = 200
        /\ bt.results = <<>>
        /\ bt.pairs = 0

\* C18: the results of a batch hold one entry per requested note_id that
\* exists in the session, in the order of request.note_ids, and within each
\* note the annotations follow the order of request.prompt_types, whatever the
\* pairs' durations.
C18_ResultsInRequestOrder ==
    (bt.phase = "done" /\ bt.kind = "batch" /\ bt.code = 200) =>
        /\ [ri \in DOMAIN bt.results |-> bt.results[ri].note_id]
              = SelectSeq(bt.note_ids, LAMBDA n : n \in NoteIds)
        /\ \A ri \in DOMAIN bt.results :
              LET a == bt.results[ri].annotations
                  annotated == {a[k].prompt_type : k \in DOMAIN a}
              IN [k \in DOMAIN a |-> a[k].prompt_type]
                    = SelectSeq(bt.prompt_types, LAMBDA pt : pt \in annotated)

\* C18 witness: a batch answered for two different notes, the first with two
\* annotations of different prompt types, whose last pair took longer than
\* the second note's.
C18_Witness ==
    /\ bt.phase = "done" /\ bt.kind = "batch" /\ bt.code = 200
    /\ Len(bt.results) = 2
    /\ bt.results[1].note_id # bt.results[2].note_id
    /\ Len(bt.results[1].annotations) = 2
    /\ bt.results[1].annotations[1].prompt_type # bt.results[1].annotations[2].prompt_type
    /\ bt.results[2].annotations # <<>>
    /\ bt.results[1].processing_time_seconds > bt.results[2].processing_time_seconds

C20_UnavailableBatchRejected ==
    [][(bt.phase = "idle" /\ bt'.kind = "batch" /\ sess.exists /\ ~bt'.up) =>
          /\ bt'.phase = "done"
          /\ bt'.code = 503
          /\ bt'.endpoint_named
          /\ bt'.pairs = 0
          /\ bt'.results = <<>>
          /\ sess' = sess]_vars

\* C20 witness: a batch for a note of the session, which has a stored
\* annotation, has been rejected with 503.
C20_Witness ==
    /\ bt.phase = "done" /\ bt.kind = "batch" /\ bt.code = 503
    /\ \E k \in DOMAIN bt.note_ids : bt.note_ids[k] \in NoteIds
    /\ bt.prompt_types # <<>>
    /\ Stored(sess.annotations) # {}

\* ============================================ job properties, continued
\* C29: the progress values written to a job's status row never decrease,
\* whatever /cancel and /kill requests interleave with the job's task.
C29_ProgressNeverDecreases ==
    [][row # NoRow => row'.progress >= row.progress]_vars

\* C30: after the job's background task has ended, CANCEL_EVENTS and
\* PROCESS_PIDS hold no entry for the job.
C30_RegistriesEmptyAfterTask ==
    tphase = "ended" => (cancelEv = "absent" /\ ~procEntry)

\* C30 witness: the task has ended after a subprocess stage ran and a /cancel
\* and a /kill request were handled.
C30_Witness ==
    /\ tphase = "ended"
    /\ gen > 0
    /\ nCancel > 0
    /\ nKill > 0

\* ==================================================== export properties
\* C21: in the coded export, every note with a non-empty annotation whose
\* core_variable is Diagnosis.histologySubgroup or Diagnosis.subsite has
\* exactly one row with core_variable = Diagnosis.diagnosisCode (value the
\* saved unified query code with match_method unified_icdo3, else
\* UNRESOLVED::no_unified_icdo3_code), and no row of the output has
\* core_variable Diagnosis.histologySubgroup or Diagnosis.subsite.
C21_OneDiagnosisCodeRowPerNote ==
    ex.exported =>
        /\ \A n \in NoteIds :
              (\E i \in DOMAIN ex.annotations :
                    /\ ex.annotations[i].note_id = n
                    /\ ex.annotations[i].annotation_text # NoText
                    /\ prompt_mapping(ex.annotations[i].prompt_type) \in DIAGNOSIS_MERGE_VARS)
              => LET diag == {k \in DOMAIN ex.coded :
                                /\ ex.coded[k].note_id = n
                                /\ ex.coded[k].core_variable = <<"Diagnosis", "diagnosisCode">>}
                 IN /\ Cardinality(diag) = 1
                    /\ \A k \in diag :
                          IF n \in ex.unified
                            THEN /\ ex.coded[k].value = <<UnifiedQueryCode>>
                                 /\ ex.coded[k].match_method = "unified_icdo3"
                            ELSE ex.coded[k].value = <<"UNRESOLVED::", "no_unified_icdo3_code">>
        /\ \A k \in DOMAIN ex.coded : ex.coded[k].core_variable \notin DIAGNOSIS_MERGE_VARS

\* C22: in the rows built for an export, two rows have the same record_id
\* exactly when they have the same (patient_id, entity, date_ref), and the
\* record_ids are 1..k in the order in which the distinct keys first appear.
C22_RecordIdPerKey ==
    ex.exported =>
        /\ \A i, j \in DOMAIN ex.rows :
              (ex.rows[i].record_id = ex.rows[j].record_id)
                <=> (/\ ex.rows[i].patient_id = ex.rows[j].patient_id
                     /\ ex.rows[i].entity = ex.rows[j].entity
                     /\ ex.rows[i].date_ref = ex.rows[j].date_ref)
        /\ \A i \in DOMAIN ex.rows :
              LET earlier == {ex.rows[j].record_id : j \in 1..(i - 1)}
              IN \/ ex.rows[i].record_id \in earlier
                 \/ ex.rows[i].record_id = Cardinality(earlier) + 1

\* C22 witness: an export of three rows, the first two of one key although
\* their dates were written differently, the third of another key.
C22_Witness ==
    /\ ex.exported
    /\ Len(ex.rows) = 3
    /\ ex.rows[1].record_id = 1 /\ ex.rows[2].record_id = 1 /\ ex.rows[3].record_id = 2
    /\ \E i, j \in DOMAIN ex.annotations :
          /\ ex.annotations[i].note_id = ex.annotations[j].note_id
          /\ ex.annotations[i].extracted_date = NoDate
          /\ ex.annotations[j].extracted_date = DmyDate("d1")

\* ==================================================== prompt properties
\* C23: after the prompts.json of one center is modified on disk, the next
\* request that resolves a key of that center gets the new template text,
\* and the templates of the other centers' keys are what they were before.
C23_ModifiedPromptResolvedFresh ==
    pcache.phase = "resolved" =>
        /\ CenterOfKey(pcache.resolved.key) = pcache.modified
              => pcache.resolved.template
                   = AdaptTemplate(RawTemplate(pcache.file[pcache.modified].version))
        /\ \A k \in CacheKeys :
              CenterOfKey(k) # pcache.modified => pcache.PROMPTS[k] = pcache.before[k]

\* C24: loading a prompt directory tree gives a flat map with one distinct
\* key for every stored (center, bare key) pair: no two pairs share a
\* suffixed key, so no prompt of one center replaces one of another.
C24_OneKeyPerCenterAndBareKey ==
    /\ Cardinality(DOMAIN adapt_all_prompts_from_dir(pfiles.files))
         = Cardinality(StoredPairs(pfiles.files))
    /\ \A p1, p2 \in StoredPairs(pfiles.files) :
          p1 # p2 => suffixed_key(p1[2], p1[1]) # suffixed_key(p2[2], p2[1])

\* C25: a create whose identifier already denotes a prompt stored in the
\* center's file (by its bare key or by its suffixed key) is answered 400,
\* and after an accepted create the center's file holds every prompt it
\* held before, unchanged, plus the new one.
C25_CreateNeverOverwrites ==
    pfiles.last.op = "create_prompt" =>
        LET c == pfiles.last.center
            id == pfiles.last.id
            before == pfiles.prev[c].prompts
            after == pfiles.files[c].prompts
            denoted == {k \in StoredKeys(pfiles.prev, c) :
                           id = k \/ id = suffixed_key(k, c)}
        IN /\ denoted # {} => pfiles.last.code = 400
           /\ pfiles.last.code = 200 =>
                 /\ \A k \in StoredKeys(pfiles.prev, c) : after[k] = before[k]
                 /\ \E k \in PromptIds :
                       before[k] = NoPrompt /\ after[k] = pfiles.last.text

\* ================================================ dictionary properties
\* the scores of the methods that match dictionary row i for a query
MethodScores(qr, i) ==
    (IF qr.query_code # "" /\ Dictionary[i].Query = qr.query_code THEN {10000} ELSE {})
    \cup (IF qr.morphology_code # "" /\ qr.topography_code # ""
              /\ i \in CombinedMatches(qr) THEN {9000} ELSE {})
    \cup (IF qr.morphology_code # "" /\ i \in MorphologyMatches(qr)
            THEN {MorphologyScore(qr, i)} ELSE {})
    \cup (IF qr.topography_code # "" /\ i \in TopographyMatches(qr)
            THEN {TopographyScore(qr, i)} ELSE {})
    \cup (IF qr.histology_text # <<>> /\ i \in TextMatches(qr.histology_text)
            THEN {TextScore(qr.histology_text, i)}
          ELSE IF qr.topography_text # <<>> /\ i \in TextMatches(qr.topography_text)
            THEN {TextScore(qr.topography_text, i)}
          ELSE {})

\* C26: the list find_top_candidates returns holds each dictionary row
\* (Query code) at most once, and the entry of a row carries the highest
\* score among the methods that matched the row.
C26_OneEntryPerRowWithHighestScore ==
    /\ \A i, j \in DOMAIN topc.result :
          i # j => /\ topc.result[i].key # topc.result[j].key
                   /\ topc.result[i].dictrow # topc.result[j].dictrow
    /\ \A i \in DOMAIN topc.result :
          \A sc \in MethodScores(topc.query, topc.result[i].dictrow) :
              topc.result[i].score >= sc

\* ==================================================== upload properties
\* a segment without the whitespace around it
FullStrip(seg) == RStrip(LStrip(seg))

\* C27: for a row of a valid notes CSV, however many delimiters its text
\* holds, the parsed text holds every segment of the original text and
\* every other required column holds its own value.
C27_TextKeptAndColumnsOwnValues ==
    (upl.uploaded /\ upl.frame.ok) =>
        /\ [i \in DOMAIN Cell(upl.frame, "text") |-> FullStrip(Cell(upl.frame, "text")[i])]
             = [i \in DOMAIN upl.text |-> FullStrip(upl.text[i])]
        /\ \A col \in required_columns \ {"text"} :
              Cell(upl.frame, col) = StripValue(ColumnValue(col, upl.text, upl.date))

\* ================================================ evaluation properties
\* the gold annotations that say nothing is to be found
AbsenceGolds == {<<"Not", "applicable">>, <<"Unknown">>, <<"N/A">>}
\* a bracketed placeholder somewhere in the text
ContainsPlaceholder(text) == HasWord(text, {"[x]", "[select"})
\* the text is a bracketed placeholder, alone or after its label
IsPlaceholder(text) ==
    \/ Bracketed(text)
    \/ Len(text) > 1 /\ text[1] = "Grade:" /\ Bracketed(Tail(text))

====
